---- MODULE Spec2Model ----
(***************************************************************************)
(* Model of the pose-file decoder (src/src/vpdLoader.ts, VpdLoader) and of *)
(* the skeleton retargeter (src/unnamed/part_001, HumanoidRetargeter).     *)
(*                                                                         *)
(* Buffers are sequences of bytes 0..255, strings are sequences of UTF-16  *)
(* code units, and numbers are records (see Num below), so that decoding,  *)
(* parsing and sign handling are computed the way the code computes them.  *)
(***************************************************************************)
EXTENDS Integers, Sequences, FiniteSets, TLC

VARIABLES
    vpdLoads,     \* the calls of LoadFromFile and LoadVpdFile, in call order: each
                  \* [phase, file, data, result], with a reader or fetch of its own
    maps,         \* heap of BoneMapping objects (address = index)
    configs,      \* heap of RetargetingConfig objects
    retargeters,  \* HumanoidRetargeter instances: [config |-> address]
    docs,         \* heap of animation-handle objects
    groups,       \* heap of animation-group objects (elements of .animations)
    chans,        \* heap of bone-animation objects (elements of .boneAnimations)
    tracks,       \* heap of keyframe arrays
    inputDoc,     \* address of the caller's document
    inputSnapshot,\* deep value of the caller's document before the first call
    returned,     \* addresses of the documents returned so far, in call order
    returnedBy,   \* for each returned document, the retargeter that made it
    returnedAt,   \* deep value of each returned document when it was returned
    mutated,      \* returned documents (indices) the caller has written to since
    origins,      \* for each retargeter, how it was made and from which table
    callerMaps,   \* addresses of the BoneMapping objects the caller holds
    callerConfigs,\* addresses of the config objects the caller holds
    lastCall,     \* the last query made on a retargeter and what it returned
    skeleton,           \* the model mesh's skeleton: absent until loaded, then its bones
    bonesInitialized,   \* BoneController._bonesInitialized
    transformsCaptured, \* BoneController._transformsCaptured
    originalTransforms, \* BoneController._originalTransforms: bone name -> transform
    applies,            \* calls of applyVpdPose made so far
    poseCall,           \* the last call that wrote bones; of applyVpdPose its records, the skeleton before
    selectedBoneName,   \* BoneController._selectedBoneName
    skeletonReadyCallbacks, \* BoneController._skeletonReadyCallbacks
    checkSkeleton,      \* the 50 ms interval of _waitForSkeleton: "running" | "cleared"
    polled,             \* whether that interval has ticked
    retryTimer,         \* the 100 ms timeout of the constructor: "pending" | "fired"
    cutoffTimer,        \* the 5 s timeout of _waitForSkeleton: "pending" | "fired"
    registered,         \* the callbacks given to onSkeletonReady so far
    invoked,            \* for each callback, how often it has been invoked
    animationLayers,    \* AnimationBlender._animationLayers
    blendMode,          \* AnimationBlender._blendMode
    animationDatas,     \* heap of animation-data objects: skeleton, bones in key order with the address of their data
    boneDatas,          \* heap of bone-data objects: positions, rotations and other tracks
    modelAnimation,     \* the runtime animation set on the blender's model
    blends,             \* additive blends made so far
    layerCall,          \* the last call on the blender, and what it found
    givenDatas,         \* for each layer, the deep value of the data it was added with
    loadedModels,       \* VmdAnimationController._loadedModels
    modelBlenders,      \* VmdAnimationController._modelBlenders: the models with a blender
    loading,            \* the loads of loadModel and loadModelFromFile under way
    nextModel,          \* models made so far
    blenderAsked,       \* the last call of getAnimationBlender and what it returned
    mmdCamera,          \* whether VmdAnimationController._mmdCamera is set
    mmdAnimation,       \* VmdAnimationController._mmdAnimation
    modelLayers,        \* for each model, the layers of its blender
    modelBlendModes,    \* for each model, the blend mode of its blender
    runtimeAnimations,  \* for each model, the runtime animation set on it
    cameraAnimations,   \* CameraController._cameraAnimations, in insertion order
    activeCameraAnimation,  \* CameraController._activeCameraAnimation
    cameraBlendMode,    \* CameraController._blendMode
    cameraRuntimeAnimation, \* the runtime animation set on the MMD camera
    cameraCall          \* the last call on the camera controller

vpdVars == <<vpdLoads>>
rtVars == <<maps, configs, retargeters, docs, groups, chans, tracks,
            inputDoc, inputSnapshot, returned, returnedBy, returnedAt, mutated>>
fxVars == <<origins, callerMaps, callerConfigs, lastCall>>
timerVars == <<skeletonReadyCallbacks, checkSkeleton, polled, retryTimer, cutoffTimer,
               registered, invoked>>
bcVars == <<skeleton, bonesInitialized, transformsCaptured, originalTransforms,
            applies, poseCall, selectedBoneName, timerVars>>
abVars == <<animationLayers, blendMode, animationDatas, boneDatas, modelAnimation,
            blends, layerCall, givenDatas>>
motionVars == <<mmdCamera, mmdAnimation, modelLayers, modelBlendModes, runtimeAnimations>>
vcVars == <<loadedModels, modelBlenders, loading, nextModel, blenderAsked, motionVars>>
ccVars == <<cameraAnimations, activeCameraAnimation, cameraBlendMode,
            cameraRuntimeAnimation, cameraCall>>
uiVars == <<abVars, vcVars, ccVars>>
vars == <<vpdVars, rtVars, fxVars, bcVars, uiVars>>

(***************************************************************************)
(* Generic helpers                                                         *)
(***************************************************************************)
Min(a, b) == IF a <= b THEN a ELSE b

\* Uint8Array.prototype.slice / String.prototype.slice with 0-based, clamped,
\* end-exclusive indices.
slice(s, start, end) == SubSeq(s, Min(start, Len(s)) + 1, Min(end, Len(s)))

\* String.prototype.includes
includes(s, pat) ==
    \E p \in 1..(Len(s) - Len(pat) + 1) : SubSeq(s, p, p + Len(pat) - 1) = pat

\* White space of String.prototype.trim and of the regular-expression class \s.
WhiteSpace ==
    {9, 10, 11, 12, 13, 32, 160, 5760, 8232, 8233, 8239, 8287, 12288, 65279}
        \cup (8192..8202)

IsSpace(c) == c \in WhiteSpace

\* String.prototype.trim
trim(s) ==
    IF \A k \in 1..Len(s) : IsSpace(s[k]) THEN <<>>
    ELSE LET a == CHOOSE k \in 1..Len(s) :
                      ~IsSpace(s[k]) /\ \A m \in 1..(k - 1) : IsSpace(s[m])
             b == CHOOSE k \in 1..Len(s) :
                      ~IsSpace(s[k]) /\ \A m \in (k + 1)..Len(s) : IsSpace(s[m])
         IN  SubSeq(s, a, b)

\* String.prototype.split on a single separator code unit.
RECURSIVE split(_, _)
split(s, sep) ==
    IF \A k \in 1..Len(s) : s[k] # sep THEN <<s>>
    ELSE LET p == CHOOSE k \in 1..Len(s) :
                      s[k] = sep /\ \A m \in 1..(k - 1) : s[m] # sep
         IN  <<SubSeq(s, 1, p - 1)>> \o split(SubSeq(s, p + 1, Len(s)), sep)

\* End of the longest run of characters of the class C that starts at p
\* (p - 1 when the run is empty): a greedy C* of a regular expression.
RunEnd(s, p, C) ==
    CHOOSE q \in (p - 1)..Len(s) :
        /\ \A k \in p..q : s[k] \in C
        /\ (q = Len(s) \/ s[q + 1] \notin C)

(***************************************************************************)
(* Numbers.  A JavaScript number is modelled by what the code can observe  *)
(* of it: NaN, an infinity, or (-1)^neg * mant * base^exp.                 *)
(***************************************************************************)
NaN == [nan |-> TRUE, inf |-> FALSE, neg |-> FALSE, mant |-> 0, exp |-> 0, base |-> 2]

Infinity(neg) ==
    [nan |-> FALSE, inf |-> TRUE, neg |-> neg, mant |-> 0, exp |-> 0, base |-> 2]

Finite(neg, mant, exp, base) ==
    [nan |-> FALSE, inf |-> FALSE, neg |-> neg, mant |-> mant,
     exp |-> IF mant = 0 THEN 0 ELSE exp, base |-> IF mant = 0 THEN 2 ELSE base]

Zero == Finite(FALSE, 0, 0, 2)

One == Finite(FALSE, 1, 0, 2)

\* n < 0 (false for NaN and for both zeros)
LessThanZero(n) == ~n.nan /\ n.neg /\ (n.inf \/ n.mant > 0)

\* n >= 0 as the properties state it: false for NaN, true for both zeros.
\* The loader never tests it: it tests n < 0 and takes the other branch for
\* every other n, NaN included.
AtLeastZero(n) == ~n.nan /\ ~LessThanZero(n)

\* unary minus
Negate(n) == IF n.nan THEN n ELSE [n EXCEPT !.neg = ~n.neg]

Vector3(x, y, z) == [x |-> x, y |-> y, z |-> z]

Quaternion(x, y, z, w) == [x |-> x, y |-> y, z |-> z, w |-> w]

(***************************************************************************)
(* Decoding (vpdLoader.ts 25-65)                                           *)
(***************************************************************************)
IsLeadByte(b) == b \in 129..159 \/ b \in 224..252

IsTrailByte(b) == b \in 64..126 \/ b \in 128..252

\* a row of the index without any character
NoJis0208Row == [i \in 1..188 |-> 0]

\* The index jis0208 of the decoder, one row of 188 code points for each lead
\* byte 0x81-0x9F, 0xE0-0xEF and 0xFA-0xFC; 0 where a pair has no character.
Jis0208Index ==
    <<
    <<12288, 12289, 12290, 65292, 65294, 12539, 65306, 65307, 65311, 65281, 12443, 12444, 180,
      65344, 168, 65342, 65507, 65343, 12541, 12542, 12445, 12446, 12291, 20189, 12293, 12294,
      12295, 12540, 8213, 8208, 65295, 65340, 65374, 8741, 65372, 8230, 8229, 8216, 8217, 8220,
      8221, 65288, 65289, 12308, 12309, 65339, 65341, 65371, 65373, 12296, 12297, 12298, 12299,
      12300, 12301, 12302, 12303, 12304, 12305, 65291, 65293, 177, 215, 247, 65309, 8800,
      65308, 65310, 8806, 8807, 8734, 8756, 9794, 9792, 176, 8242, 8243, 8451, 65509, 65284,
      65504, 65505, 65285, 65283, 65286, 65290, 65312, 167, 9734, 9733, 9675, 9679, 9678, 9671,
      9670, 9633, 9632, 9651, 9650, 9661, 9660, 8251, 12306, 8594, 8592, 8593, 8595, 12307, 0,
      0, 0, 0, 0, 0, 0, 0, 0, 0, 0, 8712, 8715, 8838, 8839, 8834, 8835, 8746, 8745, 0, 0, 0, 0,
      0, 0, 0, 0, 8743, 8744, 65506, 8658, 8660, 8704, 8707, 0, 0, 0, 0, 0, 0, 0, 0, 0, 0, 0,
      8736, 8869, 8978, 8706, 8711, 8801, 8786, 8810, 8811, 8730, 8765, 8733, 8757, 8747, 8748,
      0, 0, 0, 0, 0, 0, 0, 8491, 8240, 9839, 9837, 9834, 8224, 8225, 182, 0, 0, 0, 0, 9711>>,   \* lead byte 0x81
    <<0, 0, 0, 0, 0, 0, 0, 0, 0, 0, 0, 0, 0, 0, 0, 65296, 65297, 65298, 65299, 65300, 65301,
      65302, 65303, 65304, 65305, 0, 0, 0, 0, 0, 0, 0, 65313, 65314, 65315, 65316, 65317,
      65318, 65319, 65320, 65321, 65322, 65323, 65324, 65325, 65326, 65327, 65328, 65329,
      65330, 65331, 65332, 65333, 65334, 65335, 65336, 65337, 65338, 0, 0, 0, 0, 0, 0, 65345,
      65346, 65347, 65348, 65349, 65350, 65351, 65352, 65353, 65354, 65355, 65356, 65357,
      65358, 65359, 65360, 65361, 65362, 65363, 65364, 65365, 65366, 65367, 65368, 65369,
      65370, 0, 0, 0, 0, 12353, 12354, 12355, 12356, 12357, 12358, 12359, 12360, 12361, 12362,
      12363, 12364, 12365, 12366, 12367, 12368, 12369, 12370, 12371, 12372, 12373, 12374,
      12375, 12376, 12377, 12378, 12379, 12380, 12381, 12382, 12383, 12384, 12385, 12386,
      12387, 12388, 12389, 12390, 12391, 12392, 12393, 12394, 12395, 12396, 12397, 12398,
      12399, 12400, 12401, 12402, 12403, 12404, 12405, 12406, 12407, 12408, 12409, 12410,
      12411, 12412, 12413, 12414, 12415, 12416, 12417, 12418, 12419, 12420, 12421, 12422,
      12423, 12424, 12425, 12426, 12427, 12428, 12429, 12430, 12431, 12432, 12433, 12434,
      12435, 0, 0, 0, 0, 0, 0, 0, 0, 0, 0, 0>>,   \* lead byte 0x82
    <<12449, 12450, 12451, 12452, 12453, 12454, 12455, 12456, 12457, 12458, 12459, 12460,
      12461, 12462, 12463, 12464, 12465, 12466, 12467, 12468, 12469, 12470, 12471, 12472,
      12473, 12474, 12475, 12476, 12477, 12478, 12479, 12480, 12481, 12482, 12483, 12484,
      12485, 12486, 12487, 12488, 12489, 12490, 12491, 12492, 12493, 12494, 12495, 12496,
      12497, 12498, 12499, 12500, 12501, 12502, 12503, 12504, 12505, 12506, 12507, 12508,
      12509, 12510, 12511, 12512, 12513, 12514, 12515, 12516, 12517, 12518, 12519, 12520,
      12521, 12522, 12523, 12524, 12525, 12526, 12527, 12528, 12529, 12530, 12531, 12532,
      12533, 12534, 0, 0, 0, 0, 0, 0, 0, 0, 913, 914, 915, 916, 917, 918, 919, 920, 921, 922,
      923, 924, 925, 926, 927, 928, 929, 931, 932, 933, 934, 935, 936, 937, 0, 0, 0, 0, 0, 0,
      0, 0, 945, 946, 947, 948, 949, 950, 951, 952, 953, 954, 955, 956, 957, 958, 959, 960,
      961, 963, 964, 965, 966, 967, 968, 969, 0, 0, 0, 0, 0, 0, 0, 0, 0, 0, 0, 0, 0, 0, 0, 0,
      0, 0, 0, 0, 0, 0, 0, 0, 0, 0, 0, 0, 0, 0, 0, 0, 0, 0, 0, 0, 0, 0>>,   \* lead byte 0x83
    <<1040, 1041, 1042, 1043, 1044, 1045, 1025, 1046, 1047, 1048, 1049, 1050, 1051, 1052, 1053,
      1054, 1055, 1056, 1057, 1058, 1059, 1060, 1061, 1062, 1063, 1064, 1065, 1066, 1067, 1068,
      1069, 1070, 1071, 0, 0, 0, 0, 0, 0, 0, 0, 0, 0, 0, 0, 0, 0, 0, 1072, 1073, 1074, 1075,
      1076, 1077, 1105, 1078, 1079, 1080, 1081, 1082, 1083, 1084, 1085, 1086, 1087, 1088, 1089,
      1090, 1091, 1092, 1093, 1094, 1095, 1096, 1097, 1098, 1099, 1100, 1101, 1102, 1103, 0, 0,
      0, 0, 0, 0, 0, 0, 0, 0, 0, 0, 0, 9472, 9474, 9484, 9488, 9496, 9492, 9500, 9516, 9508,
      9524, 9532, 9473, 9475, 9487, 9491, 9499, 9495, 9507, 9523, 9515, 9531, 9547, 9504, 9519,
      9512, 9527, 9535, 9501, 9520, 9509, 9528, 9538, 0, 0, 0, 0, 0, 0, 0, 0, 0, 0, 0, 0, 0, 0,
      0, 0, 0, 0, 0, 0, 0, 0, 0, 0, 0, 0, 0, 0, 0, 0, 0, 0, 0, 0, 0, 0, 0, 0, 0, 0, 0, 0, 0, 0,
      0, 0, 0, 0, 0, 0, 0, 0, 0, 0, 0, 0, 0, 0, 0, 0, 0, 0>>,   \* lead byte 0x84
    NoJis0208Row,   \* lead byte 0x85
    NoJis0208Row,   \* lead byte 0x86
    <<9312, 9313, 9314, 9315, 9316, 9317, 9318, 9319, 9320, 9321, 9322, 9323, 9324, 9325, 9326,
      9327, 9328, 9329, 9330, 9331, 8544, 8545, 8546, 8547, 8548, 8549, 8550, 8551, 8552, 8553,
      0, 13129, 13076, 13090, 13133, 13080, 13095, 13059, 13110, 13137, 13143, 13069, 13094,
      13091, 13099, 13130, 13115, 13212, 13213, 13214, 13198, 13199, 13252, 13217, 0, 0, 0, 0,
      0, 0, 0, 0, 13179, 12317, 12319, 8470, 13261, 8481, 12964, 12965, 12966, 12967, 12968,
      12849, 12850, 12857, 13182, 13181, 13180, 8786, 8801, 8747, 8750, 8721, 8730, 8869, 8736,
      8735, 8895, 8757, 8745, 8746, 0, 0, 0, 0, 0, 0, 0, 0, 0, 0, 0, 0, 0, 0, 0, 0, 0, 0, 0, 0,
      0, 0, 0, 0, 0, 0, 0, 0, 0, 0, 0, 0, 0, 0, 0, 0, 0, 0, 0, 0, 0, 0, 0, 0, 0, 0, 0, 0, 0, 0,
      0, 0, 0, 0, 0, 0, 0, 0, 0, 0, 0, 0, 0, 0, 0, 0, 0, 0, 0, 0, 0, 0, 0, 0, 0, 0, 0, 0, 0, 0,
      0, 0, 0, 0, 0, 0, 0, 0, 0, 0, 0, 0, 0, 0, 0, 0>>,   \* lead byte 0x87
    <<0, 0, 0, 0, 0, 0, 0, 0, 0, 0, 0, 0, 0, 0, 0, 0, 0, 0, 0, 0, 0, 0, 0, 0, 0, 0, 0, 0, 0, 0,
      0, 0, 0, 0, 0, 0, 0, 0, 0, 0, 0, 0, 0, 0, 0, 0, 0, 0, 0, 0, 0, 0, 0, 0, 0, 0, 0, 0, 0, 0,
      0, 0, 0, 0, 0, 0, 0, 0, 0, 0, 0, 0, 0, 0, 0, 0, 0, 0, 0, 0, 0, 0, 0, 0, 0, 0, 0, 0, 0, 0,
      0, 0, 0, 0, 20124, 21782, 23043, 38463, 21696, 24859, 25384, 23030, 36898, 33909, 33564,
      31312, 24746, 25569, 28197, 26093, 33894, 33446, 39925, 26771, 22311, 26017, 25201,
      23451, 22992, 34427, 39156, 32098, 32190, 39822, 25110, 31903, 34999, 23433, 24245,
      25353, 26263, 26696, 38343, 38797, 26447, 20197, 20234, 20301, 20381, 20553, 22258,
      22839, 22996, 23041, 23561, 24799, 24847, 24944, 26131, 26885, 28858, 30031, 30064,
      31227, 32173, 32239, 32963, 33806, 34915, 35586, 36949, 36986, 21307, 20117, 20133,
      22495, 32946, 37057, 30959, 19968, 22769, 28322, 36920, 31282, 33576, 33419, 39983,
      20801, 21360, 21693, 21729, 22240, 23035, 24341, 39154, 28139, 32996, 34093>>,   \* lead byte 0x88
    <<38498, 38512, 38560, 38907, 21515, 21491, 23431, 28879, 32701, 36802, 38632, 21359,
      40284, 31418, 19985, 30867, 33276, 28198, 22040, 21764, 27421, 34074, 39995, 23013,
      21417, 28006, 29916, 38287, 22082, 20113, 36939, 38642, 33615, 39180, 21473, 21942,
      23344, 24433, 26144, 26355, 26628, 27704, 27891, 27945, 29787, 30408, 31310, 38964,
      33521, 34907, 35424, 37613, 28082, 30123, 30410, 39365, 24742, 35585, 36234, 38322,
      27022, 21421, 20870, 22290, 22576, 22852, 23476, 24310, 24616, 25513, 25588, 27839,
      28436, 28814, 28948, 29017, 29141, 29503, 32257, 33398, 33489, 34199, 36960, 37467,
      40219, 22633, 26044, 27738, 29989, 20985, 22830, 22885, 24448, 24540, 25276, 26106,
      27178, 27431, 27572, 29579, 32705, 35158, 40236, 40206, 40644, 23713, 27798, 33659,
      20740, 23627, 25014, 33222, 26742, 29281, 20057, 20474, 21368, 24681, 28201, 31311,
      38899, 19979, 21270, 20206, 20309, 20285, 20385, 20339, 21152, 21487, 22025, 22799,
      23233, 23478, 23521, 31185, 26247, 26524, 26550, 27468, 27827, 28779, 29634, 31117,
      31166, 31292, 31623, 33457, 33499, 33540, 33655, 33775, 33747, 34662, 35506, 22057,
      36008, 36838, 36942, 38686, 34442, 20420, 23784, 25105, 29273, 30011, 33253, 33469,
      34558, 36032, 38597, 39187, 39381, 20171, 20250, 35299, 22238, 22602, 22730, 24315,
      24555, 24618, 24724, 24674, 25040, 25106, 25296, 25913>>,   \* lead byte 0x89
    <<39745, 26214, 26800, 28023, 28784, 30028, 30342, 32117, 33445, 34809, 38283, 38542,
      35997, 20977, 21182, 22806, 21683, 23475, 23830, 24936, 27010, 28079, 30861, 33995,
      34903, 35442, 37799, 39608, 28012, 39336, 34521, 22435, 26623, 34510, 37390, 21123,
      22151, 21508, 24275, 25313, 25785, 26684, 26680, 27579, 29554, 30906, 31339, 35226,
      35282, 36203, 36611, 37101, 38307, 38548, 38761, 23398, 23731, 27005, 38989, 38990,
      25499, 31520, 27179, 27263, 26806, 39949, 28511, 21106, 21917, 24688, 25324, 27963,
      28167, 28369, 33883, 35088, 36676, 19988, 39993, 21494, 26907, 27194, 38788, 26666,
      20828, 31427, 33970, 37340, 37772, 22107, 40232, 26658, 33541, 33841, 31909, 21000,
      33477, 29926, 20094, 20355, 20896, 23506, 21002, 21208, 21223, 24059, 21914, 22570,
      23014, 23436, 23448, 23515, 24178, 24185, 24739, 24863, 24931, 25022, 25563, 25954,
      26577, 26707, 26874, 27454, 27475, 27735, 28450, 28567, 28485, 29872, 29976, 30435,
      30475, 31487, 31649, 31777, 32233, 32566, 32752, 32925, 33382, 33694, 35251, 35532,
      36011, 36996, 37969, 38291, 38289, 38306, 38501, 38867, 39208, 33304, 20024, 21547,
      23736, 24012, 29609, 30284, 30524, 23721, 32747, 36107, 38593, 38929, 38996, 39000,
      20225, 20238, 21361, 21916, 22120, 22522, 22855, 23305, 23492, 23696, 24076, 24190,
      24524, 25582, 26426, 26071, 26082, 26399, 26827, 26820>>,   \* lead byte 0x8A
    <<27231, 24112, 27589, 27671, 27773, 30079, 31048, 23395, 31232, 32000, 24509, 35215,
      35352, 36020, 36215, 36556, 36637, 39138, 39438, 39740, 20096, 20605, 20736, 22931,
      23452, 25135, 25216, 25836, 27450, 29344, 30097, 31047, 32681, 34811, 35516, 35696,
      25516, 33738, 38816, 21513, 21507, 21931, 26708, 27224, 35440, 30759, 26485, 40653,
      21364, 23458, 33050, 34384, 36870, 19992, 20037, 20167, 20241, 21450, 21560, 23470,
      24339, 24613, 25937, 26429, 27714, 27762, 27875, 28792, 29699, 31350, 31406, 31496,
      32026, 31998, 32102, 26087, 29275, 21435, 23621, 24040, 25298, 25312, 25369, 28192,
      34394, 35377, 36317, 37624, 28417, 31142, 39770, 20136, 20139, 20140, 20379, 20384,
      20689, 20807, 31478, 20849, 20982, 21332, 21281, 21375, 21483, 21932, 22659, 23777,
      24375, 24394, 24623, 24656, 24685, 25375, 25945, 27211, 27841, 29378, 29421, 30703,
      33016, 33029, 33288, 34126, 37111, 37857, 38911, 39255, 39514, 20208, 20957, 23597,
      26241, 26989, 23616, 26354, 26997, 29577, 26704, 31873, 20677, 21220, 22343, 24062,
      37670, 26020, 27427, 27453, 29748, 31105, 31165, 31563, 32202, 33465, 33740, 34943,
      35167, 35641, 36817, 37329, 21535, 37504, 20061, 20534, 21477, 21306, 29399, 29590,
      30697, 33510, 36527, 39366, 39368, 39378, 20855, 24858, 34398, 21936, 31354, 20598,
      23507, 36935, 38533, 20018, 27355, 37351, 23633, 23624>>,   \* lead byte 0x8B
    <<25496, 31391, 27795, 38772, 36705, 31402, 29066, 38536, 31874, 26647, 32368, 26705,
      37740, 21234, 21531, 34219, 35347, 32676, 36557, 37089, 21350, 34952, 31041, 20418,
      20670, 21009, 20804, 21843, 22317, 29674, 22411, 22865, 24418, 24452, 24693, 24950,
      24935, 25001, 25522, 25658, 25964, 26223, 26690, 28179, 30054, 31293, 31995, 32076,
      32153, 32331, 32619, 33550, 33610, 34509, 35336, 35427, 35686, 36605, 38938, 40335,
      33464, 36814, 39912, 21127, 25119, 25731, 28608, 38553, 26689, 20625, 27424, 27770,
      28500, 31348, 32080, 34880, 35363, 26376, 20214, 20537, 20518, 20581, 20860, 21048,
      21091, 21927, 22287, 22533, 23244, 24314, 25010, 25080, 25331, 25458, 26908, 27177,
      29309, 29356, 29486, 30740, 30831, 32121, 30476, 32937, 35211, 35609, 36066, 36562,
      36963, 37749, 38522, 38997, 39443, 40568, 20803, 21407, 21427, 24187, 24358, 28187,
      28304, 29572, 29694, 32067, 33335, 35328, 35578, 38480, 20046, 20491, 21476, 21628,
      22266, 22993, 23396, 24049, 24235, 24359, 25144, 25925, 26543, 28246, 29392, 31946,
      34996, 32929, 32993, 33776, 34382, 35463, 36328, 37431, 38599, 39015, 40723, 20116,
      20114, 20237, 21320, 21577, 21566, 23087, 24460, 24481, 24735, 26791, 27278, 29786,
      30849, 35486, 35492, 35703, 37264, 20062, 39881, 20132, 20348, 20399, 20505, 20502,
      20809, 20844, 21151, 21177, 21246, 21402, 21475, 21521>>,   \* lead byte 0x8C
    <<21518, 21897, 22353, 22434, 22909, 23380, 23389, 23439, 24037, 24039, 24055, 24184,
      24195, 24218, 24247, 24344, 24658, 24908, 25239, 25304, 25511, 25915, 26114, 26179,
      26356, 26477, 26657, 26775, 27083, 27743, 27946, 28009, 28207, 28317, 30002, 30343,
      30828, 31295, 31968, 32005, 32024, 32094, 32177, 32789, 32771, 32943, 32945, 33108,
      33167, 33322, 33618, 34892, 34913, 35611, 36002, 36092, 37066, 37237, 37489, 30783,
      37628, 38308, 38477, 38917, 39321, 39640, 40251, 21083, 21163, 21495, 21512, 22741,
      25335, 28640, 35946, 36703, 40633, 20811, 21051, 21578, 22269, 31296, 37239, 40288,
      40658, 29508, 28425, 33136, 29969, 24573, 24794, 39592, 29403, 36796, 27492, 38915,
      20170, 22256, 22372, 22718, 23130, 24680, 25031, 26127, 26118, 26681, 26801, 28151,
      30165, 32058, 33390, 39746, 20123, 20304, 21449, 21766, 23919, 24038, 24046, 26619,
      27801, 29811, 30722, 35408, 37782, 35039, 22352, 24231, 25387, 20661, 20652, 20877,
      26368, 21705, 22622, 22971, 23472, 24425, 25165, 25505, 26685, 27507, 28168, 28797,
      37319, 29312, 30741, 30758, 31085, 25998, 32048, 33756, 35009, 36617, 38555, 21092,
      22312, 26448, 32618, 36001, 20916, 22338, 38442, 22586, 27018, 32948, 21682, 23822,
      22524, 30869, 40442, 20316, 21066, 21643, 25662, 26152, 26388, 26613, 31364, 31574,
      32034, 37679, 26716, 39853, 31545, 21273, 20874, 21047>>,   \* lead byte 0x8D
    <<23519, 25334, 25774, 25830, 26413, 27578, 34217, 38609, 30352, 39894, 25420, 37638,
      39851, 30399, 26194, 19977, 20632, 21442, 23665, 24808, 25746, 25955, 26719, 29158,
      29642, 29987, 31639, 32386, 34453, 35715, 36059, 37240, 39184, 26028, 26283, 27531,
      20181, 20180, 20282, 20351, 21050, 21496, 21490, 21987, 22235, 22763, 22987, 22985,
      23039, 23376, 23629, 24066, 24107, 24535, 24605, 25351, 25903, 23388, 26031, 26045,
      26088, 26525, 27490, 27515, 27663, 29509, 31049, 31169, 31992, 32025, 32043, 32930,
      33026, 33267, 35222, 35422, 35433, 35430, 35468, 35566, 36039, 36060, 38604, 39164,
      27503, 20107, 20284, 20365, 20816, 23383, 23546, 24904, 25345, 26178, 27425, 28363,
      27835, 29246, 29885, 30164, 30913, 31034, 32780, 32819, 33258, 33940, 36766, 27728,
      40575, 24335, 35672, 40235, 31482, 36600, 23437, 38635, 19971, 21489, 22519, 22833,
      23241, 23460, 24713, 28287, 28422, 30142, 36074, 23455, 34048, 31712, 20594, 26612,
      33437, 23649, 34122, 32286, 33294, 20889, 23556, 25448, 36198, 26012, 29038, 31038,
      32023, 32773, 35613, 36554, 36974, 34503, 37034, 20511, 21242, 23610, 26451, 28796,
      29237, 37196, 37320, 37675, 33509, 23490, 24369, 24825, 20027, 21462, 23432, 25163,
      26417, 27530, 29417, 29664, 31278, 33131, 36259, 37202, 39318, 20754, 21463, 21610,
      23551, 25480, 27193, 32172, 38656, 22234, 21454, 21608>>,   \* lead byte 0x8E
    <<23447, 23601, 24030, 20462, 24833, 25342, 27954, 31168, 31179, 32066, 32333, 32722,
      33261, 33311, 33936, 34886, 35186, 35728, 36468, 36655, 36913, 37195, 37228, 38598,
      37276, 20160, 20303, 20805, 21313, 24467, 25102, 26580, 27713, 28171, 29539, 32294,
      37325, 37507, 21460, 22809, 23487, 28113, 31069, 32302, 31899, 22654, 29087, 20986,
      34899, 36848, 20426, 23803, 26149, 30636, 31459, 33308, 39423, 20934, 24490, 26092,
      26991, 27529, 28147, 28310, 28516, 30462, 32020, 24033, 36981, 37255, 38918, 20966,
      21021, 25152, 26257, 26329, 28186, 24246, 32210, 32626, 26360, 34223, 34295, 35576,
      21161, 21465, 22899, 24207, 24464, 24661, 37604, 38500, 20663, 20767, 21213, 21280,
      21319, 21484, 21736, 21830, 21809, 22039, 22888, 22974, 23100, 23477, 23558, 23567,
      23569, 23578, 24196, 24202, 24288, 24432, 25215, 25220, 25307, 25484, 25463, 26119,
      26124, 26157, 26230, 26494, 26786, 27167, 27189, 27836, 28040, 28169, 28248, 28988,
      28966, 29031, 30151, 30465, 30813, 30977, 31077, 31216, 31456, 31505, 31911, 32057,
      32918, 33750, 33931, 34121, 34909, 35059, 35359, 35388, 35412, 35443, 35937, 36062,
      37284, 37478, 37758, 37912, 38556, 38808, 19978, 19976, 19998, 20055, 20887, 21104,
      22478, 22580, 22732, 23330, 24120, 24773, 25854, 26465, 26454, 27972, 29366, 30067,
      31331, 33976, 35698, 37304, 37664, 22065, 22516, 39166>>,   \* lead byte 0x8F
    <<25325, 26893, 27542, 29165, 32340, 32887, 33394, 35302, 39135, 34645, 36785, 23611,
      20280, 20449, 20405, 21767, 23072, 23517, 23529, 24515, 24910, 25391, 26032, 26187,
      26862, 27035, 28024, 28145, 30003, 30137, 30495, 31070, 31206, 32051, 33251, 33455,
      34218, 35242, 35386, 36523, 36763, 36914, 37341, 38663, 20154, 20161, 20995, 22645,
      22764, 23563, 29978, 23613, 33102, 35338, 36805, 38499, 38765, 31525, 35535, 38920,
      37218, 22259, 21416, 36887, 21561, 22402, 24101, 25512, 27700, 28810, 30561, 31883,
      32736, 34928, 36930, 37204, 37648, 37656, 38543, 29790, 39620, 23815, 23913, 25968,
      26530, 36264, 38619, 25454, 26441, 26905, 33733, 38935, 38592, 35070, 28548, 25722,
      23544, 19990, 28716, 30045, 26159, 20932, 21046, 21218, 22995, 24449, 24615, 25104,
      25919, 25972, 26143, 26228, 26866, 26646, 27491, 28165, 29298, 29983, 30427, 31934,
      32854, 22768, 35069, 35199, 35488, 35475, 35531, 36893, 37266, 38738, 38745, 25993,
      31246, 33030, 38587, 24109, 24796, 25114, 26021, 26132, 26512, 30707, 31309, 31821,
      32318, 33034, 36012, 36196, 36321, 36447, 30889, 20999, 25305, 25509, 25666, 25240,
      35373, 31363, 31680, 35500, 38634, 32118, 33292, 34633, 20185, 20808, 21315, 21344,
      23459, 23554, 23574, 24029, 25126, 25159, 25776, 26643, 26676, 27849, 27973, 27927,
      26579, 28508, 29006, 29053, 26059, 31359, 31661, 32218>>,   \* lead byte 0x90
    <<32330, 32680, 33146, 33307, 33337, 34214, 35438, 36046, 36341, 36984, 36983, 37549,
      37521, 38275, 39854, 21069, 21892, 28472, 28982, 20840, 31109, 32341, 33203, 31950,
      22092, 22609, 23720, 25514, 26366, 26365, 26970, 29401, 30095, 30094, 30990, 31062,
      31199, 31895, 32032, 32068, 34311, 35380, 38459, 36961, 40736, 20711, 21109, 21452,
      21474, 20489, 21930, 22766, 22863, 29245, 23435, 23652, 21277, 24803, 24819, 25436,
      25475, 25407, 25531, 25805, 26089, 26361, 24035, 27085, 27133, 28437, 29157, 20105,
      30185, 30456, 31379, 31967, 32207, 32156, 32865, 33609, 33624, 33900, 33980, 34299,
      35013, 36208, 36865, 36973, 37783, 38684, 39442, 20687, 22679, 24974, 33235, 34101,
      36104, 36896, 20419, 20596, 21063, 21363, 24687, 25417, 26463, 28204, 36275, 36895,
      20439, 23646, 36042, 26063, 32154, 21330, 34966, 20854, 25539, 23384, 23403, 23562,
      25613, 26449, 36956, 20182, 22810, 22826, 27760, 35409, 21822, 22549, 22949, 24816,
      25171, 26561, 33333, 26965, 38464, 39364, 39464, 20307, 22534, 23550, 32784, 23729,
      24111, 24453, 24608, 24907, 25140, 26367, 27888, 28382, 32974, 33151, 33492, 34955,
      36024, 36864, 36910, 38538, 40667, 39899, 20195, 21488, 22823, 31532, 37261, 38988,
      40441, 28381, 28711, 21331, 21828, 23429, 25176, 25246, 25299, 27810, 28655, 29730,
      35351, 37944, 28609, 35582, 33592, 20967, 34552, 21482>>,   \* lead byte 0x91
    <<21481, 20294, 36948, 36784, 22890, 33073, 24061, 31466, 36799, 26842, 35895, 29432,
      40008, 27197, 35504, 20025, 21336, 22022, 22374, 25285, 25506, 26086, 27470, 28129,
      28251, 28845, 30701, 31471, 31658, 32187, 32829, 32966, 34507, 35477, 37723, 22243,
      22727, 24382, 26029, 26262, 27264, 27573, 30007, 35527, 20516, 30693, 22320, 24347,
      24677, 26234, 27744, 30196, 31258, 32622, 33268, 34584, 36933, 39347, 31689, 30044,
      31481, 31569, 33988, 36880, 31209, 31378, 33590, 23265, 30528, 20013, 20210, 23449,
      24544, 25277, 26172, 26609, 27880, 34411, 34935, 35387, 37198, 37619, 39376, 27159,
      28710, 29482, 33511, 33879, 36015, 19969, 20806, 20939, 21899, 23541, 24086, 24115,
      24193, 24340, 24373, 24427, 24500, 25074, 25361, 26274, 26397, 28526, 29266, 30010,
      30522, 32884, 33081, 33144, 34678, 35519, 35548, 36229, 36339, 37530, 38263, 38914,
      40165, 21189, 25431, 30452, 26389, 27784, 29645, 36035, 37806, 38515, 27941, 22684,
      26894, 27084, 36861, 37786, 30171, 36890, 22618, 26626, 25524, 27131, 20291, 28460,
      26584, 36795, 34086, 32180, 37716, 26943, 28528, 22378, 22775, 23340, 32044, 29226,
      21514, 37347, 40372, 20141, 20302, 20572, 20597, 21059, 35998, 21576, 22564, 23450,
      24093, 24213, 24237, 24311, 24351, 24716, 25269, 25402, 25552, 26799, 27712, 30855,
      31118, 31243, 32224, 33351, 35330, 35558, 36420, 36883>>,   \* lead byte 0x92
    <<37048, 37165, 37336, 40718, 27877, 25688, 25826, 25973, 28404, 30340, 31515, 36969,
      37841, 28346, 21746, 24505, 25764, 36685, 36845, 37444, 20856, 22635, 22825, 23637,
      24215, 28155, 32399, 29980, 36028, 36578, 39003, 28857, 20253, 27583, 28593, 30000,
      38651, 20814, 21520, 22581, 22615, 22956, 23648, 24466, 26007, 26460, 28193, 30331,
      33759, 36077, 36884, 37117, 37709, 30757, 30778, 21162, 24230, 22303, 22900, 24594,
      20498, 20826, 20908, 20941, 20992, 21776, 22612, 22616, 22871, 23445, 23798, 23947,
      24764, 25237, 25645, 26481, 26691, 26812, 26847, 30423, 28120, 28271, 28059, 28783,
      29128, 24403, 30168, 31095, 31561, 31572, 31570, 31958, 32113, 21040, 33891, 34153,
      34276, 35342, 35588, 35910, 36367, 36867, 36879, 37913, 38518, 38957, 39472, 38360,
      20685, 21205, 21516, 22530, 23566, 24999, 25758, 27934, 30643, 31461, 33012, 33796,
      36947, 37509, 23776, 40199, 21311, 24471, 24499, 28060, 29305, 30563, 31167, 31716,
      27602, 29420, 35501, 26627, 27233, 20984, 31361, 26932, 23626, 40182, 33515, 23493,
      37193, 28702, 22136, 23663, 24775, 25958, 27788, 35930, 36929, 38931, 21585, 26311,
      37389, 22856, 37027, 20869, 20045, 20970, 34201, 35598, 28760, 25466, 37707, 26978,
      39348, 32260, 30071, 21335, 26976, 36575, 38627, 27741, 20108, 23612, 24336, 36841,
      21250, 36049, 32905, 34425, 24319, 26085, 20083, 20837>>,   \* lead byte 0x93
    <<22914, 23615, 38894, 20219, 22922, 24525, 35469, 28641, 31152, 31074, 23527, 33905,
      29483, 29105, 24180, 24565, 25467, 25754, 29123, 31896, 20035, 24316, 20043, 22492,
      22178, 24745, 28611, 32013, 33021, 33075, 33215, 36786, 35223, 34468, 24052, 25226,
      25773, 35207, 26487, 27874, 27966, 29750, 30772, 23110, 32629, 33453, 39340, 20467,
      24259, 25309, 25490, 25943, 26479, 30403, 29260, 32972, 32954, 36649, 37197, 20493,
      22521, 23186, 26757, 26995, 29028, 29437, 36023, 22770, 36064, 38506, 36889, 34687,
      31204, 30695, 33833, 20271, 21093, 21338, 25293, 26575, 27850, 30333, 31636, 31893,
      33334, 34180, 36843, 26333, 28448, 29190, 32283, 33707, 39361, 40614, 20989, 31665,
      30834, 31672, 32903, 31560, 27368, 24161, 32908, 30033, 30048, 20843, 37474, 28300,
      30330, 37271, 39658, 20240, 32624, 25244, 31567, 38309, 40169, 22138, 22617, 34532,
      38588, 20276, 21028, 21322, 21453, 21467, 24070, 25644, 26001, 26495, 27710, 27726,
      29256, 29359, 29677, 30036, 32321, 33324, 34281, 36009, 31684, 37318, 29033, 38930,
      39151, 25405, 26217, 30058, 30436, 30928, 34115, 34542, 21290, 21329, 21542, 22915,
      24199, 24444, 24754, 25161, 25209, 25259, 26000, 27604, 27852, 30130, 30382, 30865,
      31192, 32203, 32631, 32933, 34987, 35513, 36027, 36991, 38750, 39131, 27147, 31800,
      20633, 23614, 24494, 26503, 27608, 29749, 30473, 32654>>,   \* lead byte 0x94
    <<40763, 26570, 31255, 21305, 30091, 39661, 24422, 33181, 33777, 32920, 24380, 24517,
      30050, 31558, 36924, 26727, 23019, 23195, 32016, 30334, 35628, 20469, 24426, 27161,
      27703, 28418, 29922, 31080, 34920, 35413, 35961, 24287, 25551, 30149, 31186, 33495,
      37672, 37618, 33948, 34541, 39981, 21697, 24428, 25996, 27996, 28693, 36007, 36051,
      38971, 25935, 29942, 19981, 20184, 22496, 22827, 23142, 23500, 20904, 24067, 24220,
      24598, 25206, 25975, 26023, 26222, 28014, 29238, 31526, 33104, 33178, 33433, 35676,
      36000, 36070, 36212, 38428, 38468, 20398, 25771, 27494, 33310, 33889, 34154, 37096,
      23553, 26963, 39080, 33914, 34135, 20239, 21103, 24489, 24133, 26381, 31119, 33145,
      35079, 35206, 28149, 24343, 25173, 27832, 20175, 29289, 39826, 20998, 21563, 22132,
      22707, 24996, 25198, 28954, 22894, 31881, 31966, 32027, 38640, 25991, 32862, 19993,
      20341, 20853, 22592, 24163, 24179, 24330, 26564, 20006, 34109, 38281, 38491, 31859,
      38913, 20731, 22721, 30294, 30887, 21029, 30629, 34065, 31622, 20559, 22793, 29255,
      31687, 32232, 36794, 36820, 36941, 20415, 21193, 23081, 24321, 38829, 20445, 33303,
      37610, 22275, 25429, 27497, 29995, 35036, 36628, 31298, 21215, 22675, 24917, 25098,
      26286, 27597, 31807, 33769, 20515, 20472, 21253, 21574, 22577, 22857, 23453, 23792,
      23791, 23849, 24214, 25265, 25447, 25918, 26041, 26379>>,   \* lead byte 0x95
    <<27861, 27873, 28921, 30770, 32299, 32990, 33459, 33804, 34028, 34562, 35090, 35370,
      35914, 37030, 37586, 39165, 40179, 40300, 20047, 20129, 20621, 21078, 22346, 22952,
      24125, 24536, 24537, 25151, 26292, 26395, 26576, 26834, 20882, 32033, 32938, 33192,
      35584, 35980, 36031, 37502, 38450, 21536, 38956, 21271, 20693, 21340, 22696, 25778,
      26420, 29287, 30566, 31302, 37350, 21187, 27809, 27526, 22528, 24140, 22868, 26412,
      32763, 20961, 30406, 25705, 30952, 39764, 40635, 22475, 22969, 26151, 26522, 27598,
      21737, 27097, 24149, 33180, 26517, 39850, 26622, 40018, 26717, 20134, 20451, 21448,
      25273, 26411, 27819, 36804, 20397, 32365, 40639, 19975, 24930, 28288, 28459, 34067,
      21619, 26410, 39749, 24051, 31637, 23724, 23494, 34588, 28234, 34001, 31252, 33032,
      22937, 31885, 27665, 30496, 21209, 22818, 28961, 29279, 30683, 38695, 40289, 26891,
      23167, 23064, 20901, 21517, 21629, 26126, 30431, 36855, 37528, 40180, 23018, 29277,
      28357, 20813, 26825, 32191, 32236, 38754, 40634, 25720, 27169, 33538, 22916, 23391,
      27611, 29467, 30450, 32178, 32791, 33945, 20786, 26408, 40665, 30446, 26466, 21247,
      39173, 23588, 25147, 31870, 36016, 21839, 24758, 32011, 38272, 21249, 20063, 20918,
      22812, 29242, 32822, 37326, 24357, 30690, 21380, 24441, 32004, 34220, 35379, 36493,
      38742, 26611, 34222, 37971, 24841, 24840, 27833, 30290>>,   \* lead byte 0x96
    <<35565, 36664, 21807, 20305, 20778, 21191, 21451, 23461, 24189, 24736, 24962, 25558,
      26377, 26586, 28263, 28044, 29494, 29495, 30001, 31056, 35029, 35480, 36938, 37009,
      37109, 38596, 34701, 22805, 20104, 20313, 19982, 35465, 36671, 38928, 20653, 24188,
      22934, 23481, 24248, 25562, 25594, 25793, 26332, 26954, 27096, 27915, 28342, 29076,
      29992, 31407, 32650, 32768, 33865, 33993, 35201, 35617, 36362, 36965, 38525, 39178,
      24958, 25233, 27442, 27779, 28020, 32716, 32764, 28096, 32645, 34746, 35064, 26469,
      33713, 38972, 38647, 27931, 32097, 33853, 37226, 20081, 21365, 23888, 27396, 28651,
      34253, 34349, 35239, 21033, 21519, 23653, 26446, 26792, 29702, 29827, 30178, 35023,
      35041, 37324, 38626, 38520, 24459, 29575, 31435, 33870, 25504, 30053, 21129, 27969,
      28316, 29705, 30041, 30827, 31890, 38534, 31452, 40845, 20406, 24942, 26053, 34396,
      20102, 20142, 20698, 20001, 20940, 23534, 26009, 26753, 28092, 29471, 30274, 30637,
      31260, 31975, 33391, 35538, 36988, 37327, 38517, 38936, 21147, 32209, 20523, 21400,
      26519, 28107, 29136, 29747, 33256, 36650, 38563, 40023, 40607, 29792, 22593, 28057,
      32047, 39006, 20196, 20278, 20363, 20919, 21169, 23994, 24604, 29618, 31036, 33491,
      37428, 38583, 38646, 38666, 40599, 40802, 26278, 27508, 21015, 21155, 28872, 35010,
      24265, 24651, 24976, 28451, 29001, 31806, 32244, 32879>>,   \* lead byte 0x97
    <<34030, 36899, 37676, 21570, 39791, 27347, 28809, 36034, 36335, 38706, 21172, 23105,
      24266, 24324, 26391, 27004, 27028, 28010, 28431, 29282, 29436, 31725, 32769, 32894,
      34635, 37070, 20845, 40595, 31108, 32907, 37682, 35542, 20525, 21644, 35441, 27498,
      36036, 33031, 24785, 26528, 40434, 20121, 20120, 39952, 35435, 34241, 34152, 26880,
      28286, 30871, 33109, 0, 0, 0, 0, 0, 0, 0, 0, 0, 0, 0, 0, 0, 0, 0, 0, 0, 0, 0, 0, 0, 0, 0,
      0, 0, 0, 0, 0, 0, 0, 0, 0, 0, 0, 0, 0, 0, 0, 0, 0, 0, 0, 0, 24332, 19984, 19989, 20010,
      20017, 20022, 20028, 20031, 20034, 20054, 20056, 20098, 20101, 35947, 20106, 33298,
      24333, 20110, 20126, 20127, 20128, 20130, 20144, 20147, 20150, 20174, 20173, 20164,
      20166, 20162, 20183, 20190, 20205, 20191, 20215, 20233, 20314, 20272, 20315, 20317,
      20311, 20295, 20342, 20360, 20367, 20376, 20347, 20329, 20336, 20369, 20335, 20358,
      20374, 20760, 20436, 20447, 20430, 20440, 20443, 20433, 20442, 20432, 20452, 20453,
      20506, 20520, 20500, 20522, 20517, 20485, 20252, 20470, 20513, 20521, 20524, 20478,
      20463, 20497, 20486, 20547, 20551, 26371, 20565, 20560, 20552, 20570, 20566, 20588,
      20600, 20608, 20634, 20613, 20660, 20658>>,   \* lead byte 0x98
    <<20681, 20682, 20659, 20674, 20694, 20702, 20709, 20717, 20707, 20718, 20729, 20725,
      20745, 20737, 20738, 20758, 20757, 20756, 20762, 20769, 20794, 20791, 20796, 20795,
      20799, 20800, 20818, 20812, 20820, 20834, 31480, 20841, 20842, 20846, 20864, 20866,
      22232, 20876, 20873, 20879, 20881, 20883, 20885, 20886, 20900, 20902, 20898, 20905,
      20906, 20907, 20915, 20913, 20914, 20912, 20917, 20925, 20933, 20937, 20955, 20960,
      34389, 20969, 20973, 20976, 20981, 20990, 20996, 21003, 21012, 21006, 21031, 21034,
      21038, 21043, 21049, 21071, 21060, 21067, 21068, 21086, 21076, 21098, 21108, 21097,
      21107, 21119, 21117, 21133, 21140, 21138, 21105, 21128, 21137, 36776, 36775, 21164,
      21165, 21180, 21173, 21185, 21197, 21207, 21214, 21219, 21222, 39149, 21216, 21235,
      21237, 21240, 21241, 21254, 21256, 30008, 21261, 21264, 21263, 21269, 21274, 21283,
      21295, 21297, 21299, 21304, 21312, 21318, 21317, 19991, 21321, 21325, 20950, 21342,
      21353, 21358, 22808, 21371, 21367, 21378, 21398, 21408, 21414, 21413, 21422, 21424,
      21430, 21443, 31762, 38617, 21471, 26364, 29166, 21486, 21480, 21485, 21498, 21505,
      21565, 21568, 21548, 21549, 21564, 21550, 21558, 21545, 21533, 21582, 21647, 21621,
      21646, 21599, 21617, 21623, 21616, 21650, 21627, 21632, 21622, 21636, 21648, 21638,
      21703, 21666, 21688, 21669, 21676, 21700, 21704, 21672>>,   \* lead byte 0x99
    <<21675, 21698, 21668, 21694, 21692, 21720, 21733, 21734, 21775, 21780, 21757, 21742,
      21741, 21754, 21730, 21817, 21824, 21859, 21836, 21806, 21852, 21829, 21846, 21847,
      21816, 21811, 21853, 21913, 21888, 21679, 21898, 21919, 21883, 21886, 21912, 21918,
      21934, 21884, 21891, 21929, 21895, 21928, 21978, 21957, 21983, 21956, 21980, 21988,
      21972, 22036, 22007, 22038, 22014, 22013, 22043, 22009, 22094, 22096, 29151, 22068,
      22070, 22066, 22072, 22123, 22116, 22063, 22124, 22122, 22150, 22144, 22154, 22176,
      22164, 22159, 22181, 22190, 22198, 22196, 22210, 22204, 22209, 22211, 22208, 22216,
      22222, 22225, 22227, 22231, 22254, 22265, 22272, 22271, 22276, 22281, 22280, 22283,
      22285, 22291, 22296, 22294, 21959, 22300, 22310, 22327, 22328, 22350, 22331, 22336,
      22351, 22377, 22464, 22408, 22369, 22399, 22409, 22419, 22432, 22451, 22436, 22442,
      22448, 22467, 22470, 22484, 22482, 22483, 22538, 22486, 22499, 22539, 22553, 22557,
      22642, 22561, 22626, 22603, 22640, 27584, 22610, 22589, 22649, 22661, 22713, 22687,
      22699, 22714, 22750, 22715, 22712, 22702, 22725, 22739, 22737, 22743, 22745, 22744,
      22757, 22748, 22756, 22751, 22767, 22778, 22777, 22779, 22780, 22781, 22786, 22794,
      22800, 22811, 26790, 22821, 22828, 22829, 22834, 22840, 22846, 31442, 22869, 22864,
      22862, 22874, 22872, 22882, 22880, 22887, 22892, 22889>>,   \* lead byte 0x9A
    <<22904, 22913, 22941, 20318, 20395, 22947, 22962, 22982, 23016, 23004, 22925, 23001,
      23002, 23077, 23071, 23057, 23068, 23049, 23066, 23104, 23148, 23113, 23093, 23094,
      23138, 23146, 23194, 23228, 23230, 23243, 23234, 23229, 23267, 23255, 23270, 23273,
      23254, 23290, 23291, 23308, 23307, 23318, 23346, 23248, 23338, 23350, 23358, 23363,
      23365, 23360, 23377, 23381, 23386, 23387, 23397, 23401, 23408, 23411, 23413, 23416,
      25992, 23418, 23424, 23427, 23462, 23480, 23491, 23495, 23497, 23508, 23504, 23524,
      23526, 23522, 23518, 23525, 23531, 23536, 23542, 23539, 23557, 23559, 23560, 23565,
      23571, 23584, 23586, 23592, 23608, 23609, 23617, 23622, 23630, 23635, 23632, 23631,
      23409, 23660, 23662, 20066, 23670, 23673, 23692, 23697, 23700, 22939, 23723, 23739,
      23734, 23740, 23735, 23749, 23742, 23751, 23769, 23785, 23805, 23802, 23789, 23948,
      23786, 23819, 23829, 23831, 23900, 23839, 23835, 23825, 23828, 23842, 23834, 23833,
      23832, 23884, 23890, 23886, 23883, 23916, 23923, 23926, 23943, 23940, 23938, 23970,
      23965, 23980, 23982, 23997, 23952, 23991, 23996, 24009, 24013, 24019, 24018, 24022,
      24027, 24043, 24050, 24053, 24075, 24090, 24089, 24081, 24091, 24118, 24119, 24132,
      24131, 24128, 24142, 24151, 24148, 24159, 24162, 24164, 24135, 24181, 24182, 24186,
      40636, 24191, 24224, 24257, 24258, 24264, 24272, 24271>>,   \* lead byte 0x9B
    <<24278, 24291, 24285, 24282, 24283, 24290, 24289, 24296, 24297, 24300, 24305, 24307,
      24304, 24308, 24312, 24318, 24323, 24329, 24413, 24412, 24331, 24337, 24342, 24361,
      24365, 24376, 24385, 24392, 24396, 24398, 24367, 24401, 24406, 24407, 24409, 24417,
      24429, 24435, 24439, 24451, 24450, 24447, 24458, 24456, 24465, 24455, 24478, 24473,
      24472, 24480, 24488, 24493, 24508, 24534, 24571, 24548, 24568, 24561, 24541, 24755,
      24575, 24609, 24672, 24601, 24592, 24617, 24590, 24625, 24603, 24597, 24619, 24614,
      24591, 24634, 24666, 24641, 24682, 24695, 24671, 24650, 24646, 24653, 24675, 24643,
      24676, 24642, 24684, 24683, 24665, 24705, 24717, 24807, 24707, 24730, 24708, 24731,
      24726, 24727, 24722, 24743, 24715, 24801, 24760, 24800, 24787, 24756, 24560, 24765,
      24774, 24757, 24792, 24909, 24853, 24838, 24822, 24823, 24832, 24820, 24826, 24835,
      24865, 24827, 24817, 24845, 24846, 24903, 24894, 24872, 24871, 24906, 24895, 24892,
      24876, 24884, 24893, 24898, 24900, 24947, 24951, 24920, 24921, 24922, 24939, 24948,
      24943, 24933, 24945, 24927, 24925, 24915, 24949, 24985, 24982, 24967, 25004, 24980,
      24986, 24970, 24977, 25003, 25006, 25036, 25034, 25033, 25079, 25032, 25027, 25030,
      25018, 25035, 32633, 25037, 25062, 25059, 25078, 25082, 25076, 25087, 25085, 25084,
      25086, 25088, 25096, 25097, 25101, 25100, 25108, 25115>>,   \* lead byte 0x9C
    <<25118, 25121, 25130, 25134, 25136, 25138, 25139, 25153, 25166, 25182, 25187, 25179,
      25184, 25192, 25212, 25218, 25225, 25214, 25234, 25235, 25238, 25300, 25219, 25236,
      25303, 25297, 25275, 25295, 25343, 25286, 25812, 25288, 25308, 25292, 25290, 25282,
      25287, 25243, 25289, 25356, 25326, 25329, 25383, 25346, 25352, 25327, 25333, 25424,
      25406, 25421, 25628, 25423, 25494, 25486, 25472, 25515, 25462, 25507, 25487, 25481,
      25503, 25525, 25451, 25449, 25534, 25577, 25536, 25542, 25571, 25545, 25554, 25590,
      25540, 25622, 25652, 25606, 25619, 25638, 25654, 25885, 25623, 25640, 25615, 25703,
      25711, 25718, 25678, 25898, 25749, 25747, 25765, 25769, 25736, 25788, 25818, 25810,
      25797, 25799, 25787, 25816, 25794, 25841, 25831, 33289, 25824, 25825, 25260, 25827,
      25839, 25900, 25846, 25844, 25842, 25850, 25856, 25853, 25880, 25884, 25861, 25892,
      25891, 25899, 25908, 25909, 25911, 25910, 25912, 30027, 25928, 25942, 25941, 25933,
      25944, 25950, 25949, 25970, 25976, 25986, 25987, 35722, 26011, 26015, 26027, 26039,
      26051, 26054, 26049, 26052, 26060, 26066, 26075, 26073, 26080, 26081, 26097, 26482,
      26122, 26115, 26107, 26483, 26165, 26166, 26164, 26140, 26191, 26180, 26185, 26177,
      26206, 26205, 26212, 26215, 26216, 26207, 26210, 26224, 26243, 26248, 26254, 26249,
      26244, 26264, 26269, 26305, 26297, 26313, 26302, 26300>>,   \* lead byte 0x9D
    <<26308, 26296, 26326, 26330, 26336, 26175, 26342, 26345, 26352, 26357, 26359, 26383,
      26390, 26398, 26406, 26407, 38712, 26414, 26431, 26422, 26433, 26424, 26423, 26438,
      26462, 26464, 26457, 26467, 26468, 26505, 26480, 26537, 26492, 26474, 26508, 26507,
      26534, 26529, 26501, 26551, 26607, 26548, 26604, 26547, 26601, 26552, 26596, 26590,
      26589, 26594, 26606, 26553, 26574, 26566, 26599, 27292, 26654, 26694, 26665, 26688,
      26701, 26674, 26702, 26803, 26667, 26713, 26723, 26743, 26751, 26783, 26767, 26797,
      26772, 26781, 26779, 26755, 27310, 26809, 26740, 26805, 26784, 26810, 26895, 26765,
      26750, 26881, 26826, 26888, 26840, 26914, 26918, 26849, 26892, 26829, 26836, 26855,
      26837, 26934, 26898, 26884, 26839, 26851, 26917, 26873, 26848, 26863, 26920, 26922,
      26906, 26915, 26913, 26822, 27001, 26999, 26972, 27000, 26987, 26964, 27006, 26990,
      26937, 26996, 26941, 26969, 26928, 26977, 26974, 26973, 27009, 26986, 27058, 27054,
      27088, 27071, 27073, 27091, 27070, 27086, 23528, 27082, 27101, 27067, 27075, 27047,
      27182, 27025, 27040, 27036, 27029, 27060, 27102, 27112, 27138, 27163, 27135, 27402,
      27129, 27122, 27111, 27141, 27057, 27166, 27117, 27156, 27115, 27146, 27154, 27329,
      27171, 27155, 27204, 27148, 27250, 27190, 27256, 27207, 27234, 27225, 27238, 27208,
      27192, 27170, 27280, 27277, 27296, 27268, 27298, 27299>>,   \* lead byte 0x9E
    <<27287, 34327, 27323, 27331, 27330, 27320, 27315, 27308, 27358, 27345, 27359, 27306,
      27354, 27370, 27387, 27397, 34326, 27386, 27410, 27414, 39729, 27423, 27448, 27447,
      30428, 27449, 39150, 27463, 27459, 27465, 27472, 27481, 27476, 27483, 27487, 27489,
      27512, 27513, 27519, 27520, 27524, 27523, 27533, 27544, 27541, 27550, 27556, 27562,
      27563, 27567, 27570, 27569, 27571, 27575, 27580, 27590, 27595, 27603, 27615, 27628,
      27627, 27635, 27631, 40638, 27656, 27667, 27668, 27675, 27684, 27683, 27742, 27733,
      27746, 27754, 27778, 27789, 27802, 27777, 27803, 27774, 27752, 27763, 27794, 27792,
      27844, 27889, 27859, 27837, 27863, 27845, 27869, 27822, 27825, 27838, 27834, 27867,
      27887, 27865, 27882, 27935, 34893, 27958, 27947, 27965, 27960, 27929, 27957, 27955,
      27922, 27916, 28003, 28051, 28004, 27994, 28025, 27993, 28046, 28053, 28644, 28037,
      28153, 28181, 28170, 28085, 28103, 28134, 28088, 28102, 28140, 28126, 28108, 28136,
      28114, 28101, 28154, 28121, 28132, 28117, 28138, 28142, 28205, 28270, 28206, 28185,
      28274, 28255, 28222, 28195, 28267, 28203, 28278, 28237, 28191, 28227, 28218, 28238,
      28196, 28415, 28189, 28216, 28290, 28330, 28312, 28361, 28343, 28371, 28349, 28335,
      28356, 28338, 28372, 28373, 28303, 28325, 28354, 28319, 28481, 28433, 28748, 28396,
      28408, 28414, 28479, 28402, 28465, 28399, 28466, 28364>>,   \* lead byte 0x9F
    <<28478, 28435, 28407, 28550, 28538, 28536, 28545, 28544, 28527, 28507, 28659, 28525,
      28546, 28540, 28504, 28558, 28561, 28610, 28518, 28595, 28579, 28577, 28580, 28601,
      28614, 28586, 28639, 28629, 28652, 28628, 28632, 28657, 28654, 28635, 28681, 28683,
      28666, 28689, 28673, 28687, 28670, 28699, 28698, 28532, 28701, 28696, 28703, 28720,
      28734, 28722, 28753, 28771, 28825, 28818, 28847, 28913, 28844, 28856, 28851, 28846,
      28895, 28875, 28893, 28889, 28937, 28925, 28956, 28953, 29029, 29013, 29064, 29030,
      29026, 29004, 29014, 29036, 29071, 29179, 29060, 29077, 29096, 29100, 29143, 29113,
      29118, 29138, 29129, 29140, 29134, 29152, 29164, 29159, 29173, 29180, 29177, 29183,
      29197, 29200, 29211, 29224, 29229, 29228, 29232, 29234, 29243, 29244, 29247, 29248,
      29254, 29259, 29272, 29300, 29310, 29314, 29313, 29319, 29330, 29334, 29346, 29351,
      29369, 29362, 29379, 29382, 29380, 29390, 29394, 29410, 29408, 29409, 29433, 29431,
      20495, 29463, 29450, 29468, 29462, 29469, 29492, 29487, 29481, 29477, 29502, 29518,
      29519, 40664, 29527, 29546, 29544, 29552, 29560, 29557, 29563, 29562, 29640, 29619,
      29646, 29627, 29632, 29669, 29678, 29662, 29858, 29701, 29807, 29733, 29688, 29746,
      29754, 29781, 29759, 29791, 29785, 29761, 29788, 29801, 29808, 29795, 29802, 29814,
      29822, 29835, 29854, 29863, 29898, 29903, 29908, 29681>>,   \* lead byte 0xE0
    <<29920, 29923, 29927, 29929, 29934, 29938, 29936, 29937, 29944, 29943, 29956, 29955,
      29957, 29964, 29966, 29965, 29973, 29971, 29982, 29990, 29996, 30012, 30020, 30029,
      30026, 30025, 30043, 30022, 30042, 30057, 30052, 30055, 30059, 30061, 30072, 30070,
      30086, 30087, 30068, 30090, 30089, 30082, 30100, 30106, 30109, 30117, 30115, 30146,
      30131, 30147, 30133, 30141, 30136, 30140, 30129, 30157, 30154, 30162, 30169, 30179,
      30174, 30206, 30207, 30204, 30209, 30192, 30202, 30194, 30195, 30219, 30221, 30217,
      30239, 30247, 30240, 30241, 30242, 30244, 30260, 30256, 30267, 30279, 30280, 30278,
      30300, 30296, 30305, 30306, 30312, 30313, 30314, 30311, 30316, 30320, 30322, 30326,
      30328, 30332, 30336, 30339, 30344, 30347, 30350, 30358, 30355, 30361, 30362, 30384,
      30388, 30392, 30393, 30394, 30402, 30413, 30422, 30418, 30430, 30433, 30437, 30439,
      30442, 34351, 30459, 30472, 30471, 30468, 30505, 30500, 30494, 30501, 30502, 30491,
      30519, 30520, 30535, 30554, 30568, 30571, 30555, 30565, 30591, 30590, 30585, 30606,
      30603, 30609, 30624, 30622, 30640, 30646, 30649, 30655, 30652, 30653, 30651, 30663,
      30669, 30679, 30682, 30684, 30691, 30702, 30716, 30732, 30738, 31014, 30752, 31018,
      30789, 30862, 30836, 30854, 30844, 30874, 30860, 30883, 30901, 30890, 30895, 30929,
      30918, 30923, 30932, 30910, 30908, 30917, 30922, 30956>>,   \* lead byte 0xE1
    <<30951, 30938, 30973, 30964, 30983, 30994, 30993, 31001, 31020, 31019, 31040, 31072,
      31063, 31071, 31066, 31061, 31059, 31098, 31103, 31114, 31133, 31143, 40779, 31146,
      31150, 31155, 31161, 31162, 31177, 31189, 31207, 31212, 31201, 31203, 31240, 31245,
      31256, 31257, 31264, 31263, 31104, 31281, 31291, 31294, 31287, 31299, 31319, 31305,
      31329, 31330, 31337, 40861, 31344, 31353, 31357, 31368, 31383, 31381, 31384, 31382,
      31401, 31432, 31408, 31414, 31429, 31428, 31423, 36995, 31431, 31434, 31437, 31439,
      31445, 31443, 31449, 31450, 31453, 31457, 31458, 31462, 31469, 31472, 31490, 31503,
      31498, 31494, 31539, 31512, 31513, 31518, 31541, 31528, 31542, 31568, 31610, 31492,
      31565, 31499, 31564, 31557, 31605, 31589, 31604, 31591, 31600, 31601, 31596, 31598,
      31645, 31640, 31647, 31629, 31644, 31642, 31627, 31634, 31631, 31581, 31641, 31691,
      31681, 31692, 31695, 31668, 31686, 31709, 31721, 31761, 31764, 31718, 31717, 31840,
      31744, 31751, 31763, 31731, 31735, 31767, 31757, 31734, 31779, 31783, 31786, 31775,
      31799, 31787, 31805, 31820, 31811, 31828, 31823, 31808, 31824, 31832, 31839, 31844,
      31830, 31845, 31852, 31861, 31875, 31888, 31908, 31917, 31906, 31915, 31905, 31912,
      31923, 31922, 31921, 31918, 31929, 31933, 31936, 31941, 31938, 31960, 31954, 31964,
      31970, 39739, 31983, 31986, 31988, 31990, 31994, 32006>>,   \* lead byte 0xE2
    <<32002, 32028, 32021, 32010, 32069, 32075, 32046, 32050, 32063, 32053, 32070, 32115,
      32086, 32078, 32114, 32104, 32110, 32079, 32099, 32147, 32137, 32091, 32143, 32125,
      32155, 32186, 32174, 32163, 32181, 32199, 32189, 32171, 32317, 32162, 32175, 32220,
      32184, 32159, 32176, 32216, 32221, 32228, 32222, 32251, 32242, 32225, 32261, 32266,
      32291, 32289, 32274, 32305, 32287, 32265, 32267, 32290, 32326, 32358, 32315, 32309,
      32313, 32323, 32311, 32306, 32314, 32359, 32349, 32342, 32350, 32345, 32346, 32377,
      32362, 32361, 32380, 32379, 32387, 32213, 32381, 36782, 32383, 32392, 32393, 32396,
      32402, 32400, 32403, 32404, 32406, 32398, 32411, 32412, 32568, 32570, 32581, 32588,
      32589, 32590, 32592, 32593, 32597, 32596, 32600, 32607, 32608, 32616, 32617, 32615,
      32632, 32642, 32646, 32643, 32648, 32647, 32652, 32660, 32670, 32669, 32666, 32675,
      32687, 32690, 32697, 32686, 32694, 32696, 35697, 32709, 32710, 32714, 32725, 32724,
      32737, 32742, 32745, 32755, 32761, 39132, 32774, 32772, 32779, 32786, 32792, 32793,
      32796, 32801, 32808, 32831, 32827, 32842, 32838, 32850, 32856, 32858, 32863, 32866,
      32872, 32883, 32882, 32880, 32886, 32889, 32893, 32895, 32900, 32902, 32901, 32923,
      32915, 32922, 32941, 20880, 32940, 32987, 32997, 32985, 32989, 32964, 32986, 32982,
      33033, 33007, 33009, 33051, 33065, 33059, 33071, 33099>>,   \* lead byte 0xE3
    <<38539, 33094, 33086, 33107, 33105, 33020, 33137, 33134, 33125, 33126, 33140, 33155,
      33160, 33162, 33152, 33154, 33184, 33173, 33188, 33187, 33119, 33171, 33193, 33200,
      33205, 33214, 33208, 33213, 33216, 33218, 33210, 33225, 33229, 33233, 33241, 33240,
      33224, 33242, 33247, 33248, 33255, 33274, 33275, 33278, 33281, 33282, 33285, 33287,
      33290, 33293, 33296, 33302, 33321, 33323, 33336, 33331, 33344, 33369, 33368, 33373,
      33370, 33375, 33380, 33378, 33384, 33386, 33387, 33326, 33393, 33399, 33400, 33406,
      33421, 33426, 33451, 33439, 33467, 33452, 33505, 33507, 33503, 33490, 33524, 33523,
      33530, 33683, 33539, 33531, 33529, 33502, 33542, 33500, 33545, 33497, 33589, 33588,
      33558, 33586, 33585, 33600, 33593, 33616, 33605, 33583, 33579, 33559, 33560, 33669,
      33690, 33706, 33695, 33698, 33686, 33571, 33678, 33671, 33674, 33660, 33717, 33651,
      33653, 33696, 33673, 33704, 33780, 33811, 33771, 33742, 33789, 33795, 33752, 33803,
      33729, 33783, 33799, 33760, 33778, 33805, 33826, 33824, 33725, 33848, 34054, 33787,
      33901, 33834, 33852, 34138, 33924, 33911, 33899, 33965, 33902, 33922, 33897, 33862,
      33836, 33903, 33913, 33845, 33994, 33890, 33977, 33983, 33951, 34009, 33997, 33979,
      34010, 34000, 33985, 33990, 34006, 33953, 34081, 34047, 34036, 34071, 34072, 34092,
      34079, 34069, 34068, 34044, 34112, 34147, 34136, 34120>>,   \* lead byte 0xE4
    <<34113, 34306, 34123, 34133, 34176, 34212, 34184, 34193, 34186, 34216, 34157, 34196,
      34203, 34282, 34183, 34204, 34167, 34174, 34192, 34249, 34234, 34255, 34233, 34256,
      34261, 34269, 34277, 34268, 34297, 34314, 34323, 34315, 34302, 34298, 34310, 34338,
      34330, 34352, 34367, 34381, 20053, 34388, 34399, 34407, 34417, 34451, 34467, 34473,
      34474, 34443, 34444, 34486, 34479, 34500, 34502, 34480, 34505, 34851, 34475, 34516,
      34526, 34537, 34540, 34527, 34523, 34543, 34578, 34566, 34568, 34560, 34563, 34555,
      34577, 34569, 34573, 34553, 34570, 34612, 34623, 34615, 34619, 34597, 34601, 34586,
      34656, 34655, 34680, 34636, 34638, 34676, 34647, 34664, 34670, 34649, 34643, 34659,
      34666, 34821, 34722, 34719, 34690, 34735, 34763, 34749, 34752, 34768, 38614, 34731,
      34756, 34739, 34759, 34758, 34747, 34799, 34802, 34784, 34831, 34829, 34814, 34806,
      34807, 34830, 34770, 34833, 34838, 34837, 34850, 34849, 34865, 34870, 34873, 34855,
      34875, 34884, 34882, 34898, 34905, 34910, 34914, 34923, 34945, 34942, 34974, 34933,
      34941, 34997, 34930, 34946, 34967, 34962, 34990, 34969, 34978, 34957, 34980, 34992,
      35007, 34993, 35011, 35012, 35028, 35032, 35033, 35037, 35065, 35074, 35068, 35060,
      35048, 35058, 35076, 35084, 35082, 35091, 35139, 35102, 35109, 35114, 35115, 35137,
      35140, 35131, 35126, 35128, 35148, 35101, 35168, 35166>>,   \* lead byte 0xE5
    <<35174, 35172, 35181, 35178, 35183, 35188, 35191, 35198, 35203, 35208, 35210, 35219,
      35224, 35233, 35241, 35238, 35244, 35247, 35250, 35258, 35261, 35263, 35264, 35290,
      35292, 35293, 35303, 35316, 35320, 35331, 35350, 35344, 35340, 35355, 35357, 35365,
      35382, 35393, 35419, 35410, 35398, 35400, 35452, 35437, 35436, 35426, 35461, 35458,
      35460, 35496, 35489, 35473, 35493, 35494, 35482, 35491, 35524, 35533, 35522, 35546,
      35563, 35571, 35559, 35556, 35569, 35604, 35552, 35554, 35575, 35550, 35547, 35596,
      35591, 35610, 35553, 35606, 35600, 35607, 35616, 35635, 38827, 35622, 35627, 35646,
      35624, 35649, 35660, 35663, 35662, 35657, 35670, 35675, 35674, 35691, 35679, 35692,
      35695, 35700, 35709, 35712, 35724, 35726, 35730, 35731, 35734, 35737, 35738, 35898,
      35905, 35903, 35912, 35916, 35918, 35920, 35925, 35938, 35948, 35960, 35962, 35970,
      35977, 35973, 35978, 35981, 35982, 35988, 35964, 35992, 25117, 36013, 36010, 36029,
      36018, 36019, 36014, 36022, 36040, 36033, 36068, 36067, 36058, 36093, 36090, 36091,
      36100, 36101, 36106, 36103, 36111, 36109, 36112, 40782, 36115, 36045, 36116, 36118,
      36199, 36205, 36209, 36211, 36225, 36249, 36290, 36286, 36282, 36303, 36314, 36310,
      36300, 36315, 36299, 36330, 36331, 36319, 36323, 36348, 36360, 36361, 36351, 36381,
      36382, 36368, 36383, 36418, 36405, 36400, 36404, 36426>>,   \* lead byte 0xE6
    <<36423, 36425, 36428, 36432, 36424, 36441, 36452, 36448, 36394, 36451, 36437, 36470,
      36466, 36476, 36481, 36487, 36485, 36484, 36491, 36490, 36499, 36497, 36500, 36505,
      36522, 36513, 36524, 36528, 36550, 36529, 36542, 36549, 36552, 36555, 36571, 36579,
      36604, 36603, 36587, 36606, 36618, 36613, 36629, 36626, 36633, 36627, 36636, 36639,
      36635, 36620, 36646, 36659, 36667, 36665, 36677, 36674, 36670, 36684, 36681, 36678,
      36686, 36695, 36700, 36706, 36707, 36708, 36764, 36767, 36771, 36781, 36783, 36791,
      36826, 36837, 36834, 36842, 36847, 36999, 36852, 36869, 36857, 36858, 36881, 36885,
      36897, 36877, 36894, 36886, 36875, 36903, 36918, 36917, 36921, 36856, 36943, 36944,
      36945, 36946, 36878, 36937, 36926, 36950, 36952, 36958, 36968, 36975, 36982, 38568,
      36978, 36994, 36989, 36993, 36992, 37002, 37001, 37007, 37032, 37039, 37041, 37045,
      37090, 37092, 25160, 37083, 37122, 37138, 37145, 37170, 37168, 37194, 37206, 37208,
      37219, 37221, 37225, 37235, 37234, 37259, 37257, 37250, 37282, 37291, 37295, 37290,
      37301, 37300, 37306, 37312, 37313, 37321, 37323, 37328, 37334, 37343, 37345, 37339,
      37372, 37365, 37366, 37406, 37375, 37396, 37420, 37397, 37393, 37470, 37463, 37445,
      37449, 37476, 37448, 37525, 37439, 37451, 37456, 37532, 37526, 37523, 37531, 37466,
      37583, 37561, 37559, 37609, 37647, 37626, 37700, 37678>>,   \* lead byte 0xE7
    <<37657, 37666, 37658, 37667, 37690, 37685, 37691, 37724, 37728, 37756, 37742, 37718,
      37808, 37804, 37805, 37780, 37817, 37846, 37847, 37864, 37861, 37848, 37827, 37853,
      37840, 37832, 37860, 37914, 37908, 37907, 37891, 37895, 37904, 37942, 37931, 37941,
      37921, 37946, 37953, 37970, 37956, 37979, 37984, 37986, 37982, 37994, 37417, 38000,
      38005, 38007, 38013, 37978, 38012, 38014, 38017, 38015, 38274, 38279, 38282, 38292,
      38294, 38296, 38297, 38304, 38312, 38311, 38317, 38332, 38331, 38329, 38334, 38346,
      28662, 38339, 38349, 38348, 38357, 38356, 38358, 38364, 38369, 38373, 38370, 38433,
      38440, 38446, 38447, 38466, 38476, 38479, 38475, 38519, 38492, 38494, 38493, 38495,
      38502, 38514, 38508, 38541, 38552, 38549, 38551, 38570, 38567, 38577, 38578, 38576,
      38580, 38582, 38584, 38585, 38606, 38603, 38601, 38605, 35149, 38620, 38669, 38613,
      38649, 38660, 38662, 38664, 38675, 38670, 38673, 38671, 38678, 38681, 38692, 38698,
      38704, 38713, 38717, 38718, 38724, 38726, 38728, 38722, 38729, 38748, 38752, 38756,
      38758, 38760, 21202, 38763, 38769, 38777, 38789, 38780, 38785, 38778, 38790, 38795,
      38799, 38800, 38812, 38824, 38822, 38819, 38835, 38836, 38851, 38854, 38856, 38859,
      38876, 38893, 40783, 38898, 31455, 38902, 38901, 38927, 38924, 38968, 38948, 38945,
      38967, 38973, 38982, 38991, 38987, 39019, 39023, 39024>>,   \* lead byte 0xE8
    <<39025, 39028, 39027, 39082, 39087, 39089, 39094, 39108, 39107, 39110, 39145, 39147,
      39171, 39177, 39186, 39188, 39192, 39201, 39197, 39198, 39204, 39200, 39212, 39214,
      39229, 39230, 39234, 39241, 39237, 39248, 39243, 39249, 39250, 39244, 39253, 39319,
      39320, 39333, 39341, 39342, 39356, 39391, 39387, 39389, 39384, 39377, 39405, 39406,
      39409, 39410, 39419, 39416, 39425, 39439, 39429, 39394, 39449, 39467, 39479, 39493,
      39490, 39488, 39491, 39486, 39509, 39501, 39515, 39511, 39519, 39522, 39525, 39524,
      39529, 39531, 39530, 39597, 39600, 39612, 39616, 39631, 39633, 39635, 39636, 39646,
      39647, 39650, 39651, 39654, 39663, 39659, 39662, 39668, 39665, 39671, 39675, 39686,
      39704, 39706, 39711, 39714, 39715, 39717, 39719, 39720, 39721, 39722, 39726, 39727,
      39730, 39748, 39747, 39759, 39757, 39758, 39761, 39768, 39796, 39827, 39811, 39825,
      39830, 39831, 39839, 39840, 39848, 39860, 39872, 39882, 39865, 39878, 39887, 39889,
      39890, 39907, 39906, 39908, 39892, 39905, 39994, 39922, 39921, 39920, 39957, 39956,
      39945, 39955, 39948, 39942, 39944, 39954, 39946, 39940, 39982, 39963, 39973, 39972,
      39969, 39984, 40007, 39986, 40006, 39998, 40026, 40032, 40039, 40054, 40056, 40167,
      40172, 40176, 40201, 40200, 40171, 40195, 40198, 40234, 40230, 40367, 40227, 40223,
      40260, 40213, 40210, 40257, 40255, 40254, 40262, 40264>>,   \* lead byte 0xE9
    <<40285, 40286, 40292, 40273, 40272, 40281, 40306, 40329, 40327, 40363, 40303, 40314,
      40346, 40356, 40361, 40370, 40388, 40385, 40379, 40376, 40378, 40390, 40399, 40386,
      40409, 40403, 40440, 40422, 40429, 40431, 40445, 40474, 40475, 40478, 40565, 40569,
      40573, 40577, 40584, 40587, 40588, 40594, 40597, 40593, 40605, 40613, 40617, 40632,
      40618, 40621, 38753, 40652, 40654, 40655, 40656, 40660, 40668, 40670, 40669, 40672,
      40677, 40680, 40687, 40692, 40694, 40695, 40697, 40699, 40700, 40701, 40711, 40712,
      30391, 40725, 40737, 40748, 40766, 40778, 40786, 40788, 40803, 40799, 40800, 40801,
      40806, 40807, 40812, 40810, 40823, 40818, 40822, 40853, 40860, 40864, 22575, 27079,
      36953, 29796, 20956, 29081, 0, 0, 0, 0, 0, 0, 0, 0, 0, 0, 0, 0, 0, 0, 0, 0, 0, 0, 0, 0,
      0, 0, 0, 0, 0, 0, 0, 0, 0, 0, 0, 0, 0, 0, 0, 0, 0, 0, 0, 0, 0, 0, 0, 0, 0, 0, 0, 0, 0, 0,
      0, 0, 0, 0, 0, 0, 0, 0, 0, 0, 0, 0, 0, 0, 0, 0, 0, 0, 0, 0, 0, 0, 0, 0, 0, 0, 0, 0, 0, 0,
      0, 0, 0, 0, 0, 0, 0, 0>>,   \* lead byte 0xEA
    NoJis0208Row,   \* lead byte 0xEB
    NoJis0208Row,   \* lead byte 0xEC
    <<32394, 35100, 37704, 37512, 34012, 20425, 28859, 26161, 26824, 37625, 26363, 24389,
      20008, 20193, 20220, 20224, 20227, 20281, 20310, 20370, 20362, 20378, 20372, 20429,
      20544, 20514, 20479, 20510, 20550, 20592, 20546, 20628, 20724, 20696, 20810, 20836,
      20893, 20926, 20972, 21013, 21148, 21158, 21184, 21211, 21248, 21255, 21284, 21362,
      21395, 21426, 21469, 64014, 21660, 21642, 21673, 21759, 21894, 22361, 22373, 22444,
      22472, 22471, 64015, 64016, 22686, 22706, 22795, 22867, 22875, 22877, 22883, 22948,
      22970, 23382, 23488, 29999, 23512, 23532, 23582, 23718, 23738, 23797, 23847, 23891,
      64017, 23874, 23917, 23992, 23993, 24016, 24353, 24372, 24423, 24503, 24542, 24669,
      24709, 24714, 24798, 24789, 24864, 24818, 24849, 24887, 24880, 24984, 25107, 25254,
      25589, 25696, 25757, 25806, 25934, 26112, 26133, 26171, 26121, 26158, 26142, 26148,
      26213, 26199, 26201, 64018, 26227, 26265, 26272, 26290, 26303, 26362, 26382, 63785,
      26470, 26555, 26706, 26560, 26625, 26692, 26831, 64019, 26984, 64020, 27032, 27106,
      27184, 27243, 27206, 27251, 27262, 27362, 27364, 27606, 27711, 27740, 27782, 27759,
      27866, 27908, 28039, 28015, 28054, 28076, 28111, 28152, 28146, 28156, 28217, 28252,
      28199, 28220, 28351, 28552, 28597, 28661, 28677, 28679, 28712, 28805, 28843, 28943,
      28932, 29020, 28998, 28999, 64021, 29121, 29182, 29361>>,   \* lead byte 0xED
    <<29374, 29476, 64022, 29559, 29629, 29641, 29654, 29667, 29650, 29703, 29685, 29734,
      29738, 29737, 29742, 29794, 29833, 29855, 29953, 30063, 30338, 30364, 30366, 30363,
      30374, 64023, 30534, 21167, 30753, 30798, 30820, 30842, 31024, 64024, 64025, 64026,
      31124, 64027, 31131, 31441, 31463, 64028, 31467, 31646, 64029, 32072, 32092, 32183,
      32160, 32214, 32338, 32583, 32673, 64030, 33537, 33634, 33663, 33735, 33782, 33864,
      33972, 34131, 34137, 34155, 64031, 34224, 64032, 64033, 34823, 35061, 35346, 35383,
      35449, 35495, 35518, 35551, 64034, 35574, 35667, 35711, 36080, 36084, 36114, 36214,
      64035, 36559, 64036, 64037, 36967, 37086, 64038, 37141, 37159, 37338, 37335, 37342,
      37357, 37358, 37348, 37349, 37382, 37392, 37386, 37434, 37440, 37436, 37454, 37465,
      37457, 37433, 37479, 37543, 37495, 37496, 37607, 37591, 37593, 37584, 64039, 37589,
      37600, 37587, 37669, 37665, 37627, 64040, 37662, 37631, 37661, 37634, 37744, 37719,
      37796, 37830, 37854, 37880, 37937, 37957, 37960, 38290, 63964, 64041, 38557, 38575,
      38707, 38715, 38723, 38733, 38735, 38737, 38741, 38999, 39013, 64042, 64043, 39207,
      64044, 39326, 39502, 39641, 39644, 39797, 39794, 39823, 39857, 39867, 39936, 40304,
      40299, 64045, 40473, 40657, 0, 0, 8560, 8561, 8562, 8563, 8564, 8565, 8566, 8567, 8568,
      8569, 65506, 65508, 65287, 65282>>,   \* lead byte 0xEE
    NoJis0208Row,   \* lead byte 0xEF
    <<8560, 8561, 8562, 8563, 8564, 8565, 8566, 8567, 8568, 8569, 8544, 8545, 8546, 8547, 8548,
      8549, 8550, 8551, 8552, 8553, 65506, 65508, 65287, 65282, 12849, 8470, 8481, 8757, 32394,
      35100, 37704, 37512, 34012, 20425, 28859, 26161, 26824, 37625, 26363, 24389, 20008,
      20193, 20220, 20224, 20227, 20281, 20310, 20370, 20362, 20378, 20372, 20429, 20544,
      20514, 20479, 20510, 20550, 20592, 20546, 20628, 20724, 20696, 20810, 20836, 20893,
      20926, 20972, 21013, 21148, 21158, 21184, 21211, 21248, 21255, 21284, 21362, 21395,
      21426, 21469, 64014, 21660, 21642, 21673, 21759, 21894, 22361, 22373, 22444, 22472,
      22471, 64015, 64016, 22686, 22706, 22795, 22867, 22875, 22877, 22883, 22948, 22970,
      23382, 23488, 29999, 23512, 23532, 23582, 23718, 23738, 23797, 23847, 23891, 64017,
      23874, 23917, 23992, 23993, 24016, 24353, 24372, 24423, 24503, 24542, 24669, 24709,
      24714, 24798, 24789, 24864, 24818, 24849, 24887, 24880, 24984, 25107, 25254, 25589,
      25696, 25757, 25806, 25934, 26112, 26133, 26171, 26121, 26158, 26142, 26148, 26213,
      26199, 26201, 64018, 26227, 26265, 26272, 26290, 26303, 26362, 26382, 63785, 26470,
      26555, 26706, 26560, 26625, 26692, 26831, 64019, 26984, 64020, 27032, 27106, 27184,
      27243, 27206, 27251, 27262, 27362, 27364, 27606, 27711, 27740, 27782, 27759, 27866,
      27908, 28039, 28015>>,   \* lead byte 0xFA
    <<28054, 28076, 28111, 28152, 28146, 28156, 28217, 28252, 28199, 28220, 28351, 28552,
      28597, 28661, 28677, 28679, 28712, 28805, 28843, 28943, 28932, 29020, 28998, 28999,
      64021, 29121, 29182, 29361, 29374, 29476, 64022, 29559, 29629, 29641, 29654, 29667,
      29650, 29703, 29685, 29734, 29738, 29737, 29742, 29794, 29833, 29855, 29953, 30063,
      30338, 30364, 30366, 30363, 30374, 64023, 30534, 21167, 30753, 30798, 30820, 30842,
      31024, 64024, 64025, 64026, 31124, 64027, 31131, 31441, 31463, 64028, 31467, 31646,
      64029, 32072, 32092, 32183, 32160, 32214, 32338, 32583, 32673, 64030, 33537, 33634,
      33663, 33735, 33782, 33864, 33972, 34131, 34137, 34155, 64031, 34224, 64032, 64033,
      34823, 35061, 35346, 35383, 35449, 35495, 35518, 35551, 64034, 35574, 35667, 35711,
      36080, 36084, 36114, 36214, 64035, 36559, 64036, 64037, 36967, 37086, 64038, 37141,
      37159, 37338, 37335, 37342, 37357, 37358, 37348, 37349, 37382, 37392, 37386, 37434,
      37440, 37436, 37454, 37465, 37457, 37433, 37479, 37543, 37495, 37496, 37607, 37591,
      37593, 37584, 64039, 37589, 37600, 37587, 37669, 37665, 37627, 64040, 37662, 37631,
      37661, 37634, 37744, 37719, 37796, 37830, 37854, 37880, 37937, 37957, 37960, 38290,
      63964, 64041, 38557, 38575, 38707, 38715, 38723, 38733, 38735, 38737, 38741, 38999,
      39013, 64042, 64043, 39207, 64044, 39326, 39502, 39641>>,   \* lead byte 0xFB
    <<39644, 39797, 39794, 39823, 39857, 39867, 39936, 40304, 40299, 64045, 40473, 40657, 0, 0,
      0, 0, 0, 0, 0, 0, 0, 0, 0, 0, 0, 0, 0, 0, 0, 0, 0, 0, 0, 0, 0, 0, 0, 0, 0, 0, 0, 0, 0, 0,
      0, 0, 0, 0, 0, 0, 0, 0, 0, 0, 0, 0, 0, 0, 0, 0, 0, 0, 0, 0, 0, 0, 0, 0, 0, 0, 0, 0, 0, 0,
      0, 0, 0, 0, 0, 0, 0, 0, 0, 0, 0, 0, 0, 0, 0, 0, 0, 0, 0, 0, 0, 0, 0, 0, 0, 0, 0, 0, 0, 0,
      0, 0, 0, 0, 0, 0, 0, 0, 0, 0, 0, 0, 0, 0, 0, 0, 0, 0, 0, 0, 0, 0, 0, 0, 0, 0, 0, 0, 0, 0,
      0, 0, 0, 0, 0, 0, 0, 0, 0, 0, 0, 0, 0, 0, 0, 0, 0, 0, 0, 0, 0, 0, 0, 0, 0, 0, 0, 0, 0, 0,
      0, 0, 0, 0, 0, 0, 0, 0, 0, 0, 0, 0, 0, 0, 0, 0, 0, 0, 0, 0, 0, 0, 0, 0>>   \* lead byte 0xFC
    >>

\* The pointer of a lead byte and a trail byte into the index.
Jis0208Pointer(lead, trail) ==
    (lead - (IF lead < 160 THEN 129 ELSE 193)) * 188
        + trail - (IF trail < 127 THEN 64 ELSE 65)

\* Code point of a lead byte and a trail byte, 0 when the pair has none:
\* pointers 8836 to 10715 (lead bytes 0xF0-0xF9) are private-use code points
\* from U+E000 on, the others are looked up in the index.
Jis0208(lead, trail) ==
    LET pointer == Jis0208Pointer(lead, trail)
        row == pointer \div 188 IN
    IF pointer \in 8836..10715 THEN 57344 - 8836 + pointer
    ELSE Jis0208Index[IF row < 47 THEN row + 1 ELSE row - 9][(pointer % 188) + 1]

\* whether the byte at p is a lead byte that forms a character with the
\* byte after it
PairAt(buffer, p) ==
    /\ IsLeadByte(buffer[p])
    /\ p < Len(buffer)
    /\ IsTrailByte(buffer[p + 1])
    /\ Jis0208(buffer[p], buffer[p + 1]) # 0

\* TextDecoder("shift-jis").decode, not fatal, one character at a time.
\* The code unit decoded at p: an ASCII byte (or 0x80) is itself, a half-width
\* katakana byte one code unit, a lead byte with a trail byte that forms a
\* character with it the code unit of that character, and anything else
\* U+FFFD (65533).
DecodedAt(buffer, p) ==
    LET b == buffer[p] IN
    IF b <= 128 THEN b
    ELSE IF b \in 161..223 THEN 65377 + (b - 161)
    ELSE IF PairAt(buffer, p) THEN Jis0208(b, buffer[p + 1])
    ELSE 65533

\* Bytes consumed by the character at p: a lead byte takes the next byte with
\* it when the two form a character or when the next byte is no ASCII byte;
\* an ASCII byte that forms no character with the lead byte is decoded again
\* on its own, and so is nothing taken when the buffer ends.
WidthAt(buffer, p) ==
    IF PairAt(buffer, p)
       \/ (IsLeadByte(buffer[p]) /\ p < Len(buffer) /\ buffer[p + 1] >= 128)
    THEN 2
    ELSE 1

\* Whether a character starts at p.  Lead bytes that follow each other pair
\* up from the first one, so p starts a character when an even number of lead
\* bytes precedes it directly, or when the lead byte before it, which then
\* starts a character, does not take the byte at p with it.
StartsAt(buffer, p) ==
    LET n == CHOOSE m \in 0..(p - 1) :
                 /\ \A k \in (p - m)..(p - 1) : IsLeadByte(buffer[k])
                 /\ (m = p - 1 \/ ~IsLeadByte(buffer[p - m - 1]))
    IN  n % 2 = 0 \/ WidthAt(buffer, p - 1) = 1

\* The characters that start in lo..hi, where one starts at lo and none
\* reaches across hi.  Long ranges are halved at a character start.
RECURSIVE DecodeRange(_, _, _)
DecodeRange(buffer, lo, hi) ==
    IF lo > hi THEN <<>>
    ELSE IF hi - lo < 8
    THEN <<DecodedAt(buffer, lo)>> \o DecodeRange(buffer, lo + WidthAt(buffer, lo), hi)
    ELSE LET m == (lo + hi) \div 2
             mid == IF StartsAt(buffer, m) THEN m ELSE m + 1
         IN  DecodeRange(buffer, lo, mid - 1) \o DecodeRange(buffer, mid, hi)

\* (a decoder that takes every byte for one character)
decodeSingleByte(buffer) == buffer

decodeShiftJIS(buffer) == DecodeRange(buffer, 1, Len(buffer))

\* _readString: the value only; the next offset is offset + length.
readString(data, offset, length) == decodeShiftJIS(slice(data, offset, offset + length))

\* DataView.getFloat32(0, true) at data[offset .. offset+3]
readFloat(data, offset) ==
    LET b0 == data[offset + 1]
        b1 == data[offset + 2]
        b2 == data[offset + 3]
        b3 == data[offset + 4]
        s == b3 \div 128
        e == (b3 % 128) * 2 + (b2 \div 128)
        m == (b2 % 128) * 65536 + b1 * 256 + b0
    IN  IF e = 255 THEN (IF m = 0 THEN Infinity(s = 1) ELSE NaN)
        ELSE IF e = 0 THEN Finite(s = 1, m, -149, 2)
        ELSE Finite(s = 1, 8388608 + m, e - 150, 2)

\* DataView.getUint32(0, true) at data[offset .. offset+3], kept as two
\* 16-bit halves (value = hi * 65536 + lo) so that no bit pattern overflows.
readUInt32(data, offset) ==
    [lo |-> data[offset + 1] + 256 * data[offset + 2],
     hi |-> data[offset + 3] + 256 * data[offset + 4]]

\* a > n for an unsigned 32-bit a and a small natural n
U32GreaterThan(a, n) == a.hi > 0 \/ a.lo > n

\* i < a for a small natural i and an unsigned 32-bit a
U32Above(i, a) == a.hi > 0 \/ i < a.lo

(***************************************************************************)
(* Results of a parse: the array returned, or the error thrown.            *)
(***************************************************************************)
Returned(path, bones) == [status |-> "returned", path |-> path, bones |-> bones]

Threw(path, error) == [status |-> "threw", path |-> path, error |-> error]

VpdBoneData(name, position, rotation) ==
    [name |-> name, position |-> position, rotation |-> rotation]

\* "Normalize: ensure positive W component": the sign rule both paths apply.
NormalizeRotation(x, y, z, w) ==
    IF LessThanZero(w)
    THEN Quaternion(Negate(x), Negate(y), Negate(z), Negate(w))
    ELSE Quaternion(x, y, z, w)

(***************************************************************************)
(* Binary path (vpdLoader.ts 223-321)                                      *)
(***************************************************************************)
HeaderLength == 20

RecordSize == 48

MaxBoneCount == 10000

VocaloidMarker == <<86, 111, 99, 97, 108, 111, 105, 100>>   \* "Vocaloid"

\* One 48-byte record at `offset`: name, position, rotation.
readBone(data, offset) ==
    VpdBoneData(
        trim(readString(data, offset, HeaderLength)),
        Vector3(readFloat(data, offset + 20), readFloat(data, offset + 24),
                readFloat(data, offset + 28)),
        NormalizeRotation(readFloat(data, offset + 32), readFloat(data, offset + 36),
                          readFloat(data, offset + 40), readFloat(data, offset + 44)))

\* (a guard that also wants a byte after the record)
RecordFitsWithSpare(data, offset) == offset + RecordSize < Len(data)

\* The guard of the record loop: a whole record must lie inside the buffer.
RecordFits(data, offset) == offset + RecordSize <= Len(data)

\* for (let i = 0; i < boneCount; i += 1) { ... }
RECURSIVE parseBinaryBones(_, _, _, _, _)
parseBinaryBones(data, boneCount, i, offset, bones) ==
    IF ~U32Above(i, boneCount) THEN bones
    ELSE IF ~RecordFits(data, offset) THEN bones
    ELSE parseBinaryBones(data, boneCount, i + 1, offset + RecordSize,
                          Append(bones, readBone(data, offset)))

\* (a check that looks at the low 16 bits of the count only)
CountTooLargeLow16(boneCount) == boneCount.lo > MaxBoneCount

\* The sanity check on the decoded bone count.
CountTooLarge(boneCount) == U32GreaterThan(boneCount, MaxBoneCount)

\* (a guard that also wants a byte after the count field)
CountFieldFitsWithSpare(data, offset) == offset + 4 < Len(data)

\* The guard before the bone count is read: its 4 bytes lie inside the buffer.
CountFieldFits(data, offset) == offset + 4 <= Len(data)

parseVpdBinary(data) ==
    LET header == readString(data, 0, HeaderLength)
        offset == HeaderLength + HeaderLength
    IN  IF ~includes(header, VocaloidMarker)
        THEN Threw("binary", "Invalid VPD file: missing Vocaloid header")
        ELSE IF ~CountFieldFits(data, offset)
        THEN Threw("binary", "VPD file truncated: cannot read bone count")
        ELSE LET boneCount == readUInt32(data, offset) IN
             IF CountTooLarge(boneCount)
             THEN Threw("binary", "Invalid bone count")
             ELSE Returned("binary", parseBinaryBones(data, boneCount, 0, offset + 4, <<>>))

(***************************************************************************)
(* Text path (vpdLoader.ts 103-220)                                        *)
(***************************************************************************)
Digits == 48..57

IsDigit(c) == c \in Digits

\* the character class [-\d.]
NumberChars == Digits \cup {45, 46}

IsNumberChar(c) == c \in NumberChars

\* a line terminator of the regular-expression dot
IsLineTerminator(c) == c \in {10, 13, 8232, 8233}

RECURSIVE DigitsValue(_)
DigitsValue(ds) ==
    IF ds = <<>> THEN 0
    ELSE 10 * DigitsValue(SubSeq(ds, 1, Len(ds) - 1)) + (ds[Len(ds)] - 48)

RECURSIVE StripTrailingZeros(_)
StripTrailingZeros(ds) ==
    IF ds # <<>> /\ ds[Len(ds)] = 48
    THEN StripTrailingZeros(SubSeq(ds, 1, Len(ds) - 1))
    ELSE ds

\* parseInt(s, 10) of a string of digits (what /^(\d+)/ captures)
parseInt(ds) == DigitsValue(ds)

\* parseFloat of a string over [-\d.] (what the numeric patterns capture):
\* the longest prefix  -? digits (. digits*)?  or  -? . digits+ ; NaN if none.
parseFloat(s) ==
    LET neg == Len(s) >= 1 /\ s[1] = 45
        p == IF neg THEN 2 ELSE 1
        intEnd == RunEnd(s, p, Digits)
        intDigits == SubSeq(s, p, intEnd)
        hasDot == intEnd + 1 <= Len(s) /\ s[intEnd + 1] = 46
        fracDigits == IF hasDot
                      THEN SubSeq(s, intEnd + 2, RunEnd(s, intEnd + 2, Digits))
                      ELSE <<>>
        frac == StripTrailingZeros(fracDigits)
    IN  IF intDigits = <<>> /\ fracDigits = <<>> THEN NaN
        ELSE Finite(neg, DigitsValue(intDigits \o frac), 0 - Len(frac), 10)

\* One group ([-\d.]+) at p, then (k > 1) \s*,\s* and the remaining groups.
\* Greedy runs never need to give characters back: what follows a run is
\* never in the run's class.
RECURSIVE MatchGroupsAt(_, _, _)
MatchGroupsAt(s, p, k) ==
    IF p > Len(s) \/ ~IsNumberChar(s[p]) THEN [ok |-> FALSE, groups |-> <<>>]
    ELSE LET e == RunEnd(s, p, NumberChars)
             grp == SubSeq(s, p, e)
         IN  IF k = 1 THEN [ok |-> TRUE, groups |-> <<grp>>]
             ELSE LET comma == RunEnd(s, e + 1, WhiteSpace) + 1 IN
                  IF comma > Len(s) \/ s[comma] # 44
                  THEN [ok |-> FALSE, groups |-> <<>>]
                  ELSE LET rest == MatchGroupsAt(s, RunEnd(s, comma + 1, WhiteSpace) + 1,
                                                 k - 1)
                       IN  IF rest.ok
                           THEN [ok |-> TRUE, groups |-> <<grp>> \o rest.groups]
                           ELSE rest

\* String.prototype.match with /([-\d.]+)(\s*,\s*([-\d.]+)){k-1}/: the match at
\* the leftmost position where there is one.
MatchNumbers(s, k) ==
    IF \E p \in 1..Len(s) : MatchGroupsAt(s, p, k).ok
    THEN MatchGroupsAt(s,
             CHOOSE p \in 1..Len(s) :
                 /\ MatchGroupsAt(s, p, k).ok
                 /\ \A q \in 1..(p - 1) : ~MatchGroupsAt(s, q, k).ok,
             k)
    ELSE [ok |-> FALSE, groups |-> <<>>]

\* /[Bb]one\d+\{(.+?)$/ at p: the index of the first captured character, or 0.
BoneMarkerAt(s, p) ==
    IF p + 3 > Len(s) THEN 0
    ELSE IF ~(s[p] \in {66, 98} /\ s[p + 1] = 111 /\ s[p + 2] = 110 /\ s[p + 3] = 101)
    THEN 0
    ELSE LET d == RunEnd(s, p + 4, Digits) IN
         IF d < p + 4 \/ d + 1 > Len(s) \/ s[d + 1] # 123 THEN 0
         ELSE IF d + 2 > Len(s) THEN 0
         ELSE IF \E k \in (d + 2)..Len(s) : IsLineTerminator(s[k]) THEN 0
         ELSE d + 2

\* boneName.match(/[Bb]one\d+\{(.+?)$/): the captured name, or the raw line.
BoneNameOf(line) ==
    IF \E p \in 1..Len(line) : BoneMarkerAt(line, p) > 0
    THEN LET p == CHOOSE q \in 1..Len(line) :
                      /\ BoneMarkerAt(line, q) > 0
                      /\ \A r \in 1..(q - 1) : BoneMarkerAt(line, r) = 0
         IN  SubSeq(line, BoneMarkerAt(line, p), Len(line))
    ELSE line

\* lines[i], 0-based
LineAt(lines, i) == lines[i + 1]

\* while (i < lines.length && lines[i] === "") i += 1;
RECURSIVE SkipEmpty(_, _)
SkipEmpty(lines, i) ==
    IF i < Len(lines) /\ LineAt(lines, i) = <<>> THEN SkipEmpty(lines, i + 1) ELSE i

\* (a first line that is skipped whatever it holds)
SkipFirstLine(lines, i) == IF i < Len(lines) THEN i + 1 ELSE i

\* "Skip header": the optional first line that contains the marker
SkipHeader(lines, i) ==
    IF i < Len(lines) /\ includes(LineAt(lines, i), VocaloidMarker) THEN i + 1 ELSE i

\* "Skip model filename": an optional line that contains a "."
SkipFilename(lines, i) ==
    IF i < Len(lines) /\ includes(LineAt(lines, i), <<46>>) THEN i + 1 ELSE i

\* "Read bone count": leading digits of the line at i, 0 without them
ReadBoneCount(lines, i) ==
    IF i < Len(lines)
    THEN LET line == LineAt(lines, i)
             e == RunEnd(line, 1, Digits)
         IN  IF e >= 1 THEN parseInt(SubSeq(line, 1, e)) ELSE 0
    ELSE 0

\* the position when the position line does not match (or is missing)
DefaultPosition == Vector3(Zero, Zero, Zero)

\* (an all-zero quaternion)
ZeroRotation == Quaternion(Zero, Zero, Zero, Zero)

\* the rotation when the rotation line does not match (or is missing)
DefaultRotation == Quaternion(Zero, Zero, Zero, One)

\* "Read position line"
ReadPosition(lines, i) ==
    IF i < Len(lines)
    THEN LET m == MatchNumbers(LineAt(lines, i), 3) IN
         IF m.ok
         THEN Vector3(parseFloat(m.groups[1]), parseFloat(m.groups[2]),
                      parseFloat(m.groups[3]))
         ELSE DefaultPosition
    ELSE DefaultPosition

\* "Read rotation line"
ReadRotation(lines, i) ==
    IF i < Len(lines)
    THEN LET m == MatchNumbers(LineAt(lines, i), 4) IN
         IF m.ok
         THEN NormalizeRotation(parseFloat(m.groups[1]), parseFloat(m.groups[2]),
                                parseFloat(m.groups[3]), parseFloat(m.groups[4]))
         ELSE DefaultRotation
    ELSE DefaultRotation

\* (a record end that leaves the closing brace for the next record)
AfterBoneKeepsBrace(lines, i) ==
    LET afterName == i + 1
        afterPos == IF afterName < Len(lines) THEN afterName + 1 ELSE afterName
    IN  IF afterPos < Len(lines) THEN afterPos + 1 ELSE afterPos

\* i after one record that starts at line i (the name line)
AfterBone(lines, i) ==
    LET afterName == i + 1
        afterPos == IF afterName < Len(lines) THEN afterName + 1 ELSE afterName
        afterRot == IF afterPos < Len(lines) THEN afterPos + 1 ELSE afterPos
    IN  IF afterRot < Len(lines) /\ LineAt(lines, afterRot) = <<125>>
        THEN afterRot + 1
        ELSE afterRot

\* The record whose name line is line i.
readTextBone(lines, i) ==
    LET afterName == i + 1
        afterPos == IF afterName < Len(lines) THEN afterName + 1 ELSE afterName
    IN  VpdBoneData(BoneNameOf(LineAt(lines, i)),
                    ReadPosition(lines, afterName),
                    ReadRotation(lines, afterPos))

\* (a loop condition that runs once more than the count)
MoreBonesInclusive(lines, boneCount, j, i) == j <= boneCount /\ i < Len(lines)

\* the loop condition  j < boneCount && i < lines.length
MoreBones(lines, boneCount, j, i) == j < boneCount /\ i < Len(lines)

\* for (let j = 0; j < boneCount && i < lines.length; j += 1) { ... }
RECURSIVE parseTextBones(_, _, _, _, _)
parseTextBones(lines, boneCount, j, i, bones) ==
    IF ~MoreBones(lines, boneCount, j, i) THEN bones
    ELSE LET i1 == SkipEmpty(lines, i) IN
         IF i1 >= Len(lines) THEN bones
         ELSE parseTextBones(lines, boneCount, j + 1, AfterBone(lines, i1),
                             Append(bones, readTextBone(lines, i1)))

\* content.split("\n").map((line) => line.trim())
TextLines(content) ==
    LET raw == split(content, 10) IN [k \in 1..Len(raw) |-> trim(raw[k])]

\* the index of the bone-count line (lines.length when there is none)
CountLineIndex(lines) ==
    SkipEmpty(lines, SkipFilename(lines, SkipEmpty(lines, SkipHeader(lines, 0))))

parseVpdText(content) ==
    LET lines == TextLines(content)
        iCount == CountLineIndex(lines)
        boneCount == ReadBoneCount(lines, iCount)
        iBones == SkipEmpty(lines, IF iCount < Len(lines) THEN iCount + 1 ELSE iCount)
    IN  Returned("text", parseTextBones(lines, boneCount, 0, iBones, <<>>))

(***************************************************************************)
(* Format detection and dispatch (vpdLoader.ts 67-100)                     *)
(***************************************************************************)
SniffLength == 30

TextScanLimit == 100

\* _isTextLike: a CR or LF among the first min(length, 100) bytes given
isTextLike(data) ==
    \E i \in 1..Min(Len(data), TextScanLimit) : data[i] = 10 \/ data[i] = 13

\* const firstBytes = data.slice(0, 30)
FirstBytes(data) == slice(data, 0, SniffLength)

\* ParseVpd.  The text parser has no throw, so the catch that would fall
\* through to the binary parser is never entered.
ParseVpd(data) ==
    IF isTextLike(FirstBytes(data))
    THEN parseVpdText(decodeShiftJIS(data))
    ELSE parseVpdBinary(data)

(***************************************************************************)
(* Input files.  A file is described by a few parameters, from which its   *)
(* bytes are built; the parameters say what the file holds, independently  *)
(* of any parser.                                                          *)
(***************************************************************************)
MaxRecords == 2     \* records physically present in a file

MaxCut == 2         \* lines missing from the end of a text file

Dec(neg, mant, exp) == Finite(neg, mant, exp, 10)

PadTo(s, n) == [i \in 1..n |-> IF i <= Len(s) THEN s[i] ELSE 0]

RECURSIVE Flatten(_)
Flatten(ss) == IF ss = <<>> THEN <<>> ELSE Head(ss) \o Flatten(Tail(ss))

\* ---- binary files ----------------------------------------------------
BinHeaderKinds == {"marker", "nomarker", "swallowed", "reread", "split"}

BinHeader(kind) ==
    IF kind = "marker"                                  \* "Vocaloid Pose Data"
    THEN PadTo(<<86, 111, 99, 97, 108, 111, 105, 100, 32, 80, 111, 115, 101, 32,
                 68, 97, 116, 97>>, 20)
    ELSE IF kind = "nomarker"                           \* "Pose Data file"
    THEN PadTo(<<80, 111, 115, 101, 32, 68, 97, 116, 97, 32, 102, 105, 108, 101>>, 20)
    ELSE IF kind = "swallowed"           \* lead byte 0x83, then "Vocaloid Pose":
                                         \* 0x83 0x56 is one character, U+30B7
    THEN PadTo(<<131, 86, 111, 99, 97, 108, 111, 105, 100, 32, 80, 111, 115, 101>>, 20)
    ELSE IF kind = "reread"              \* lead byte 0x85, then "Vocaloid Pose":
                                         \* 0x85 0x56 is no character, "V" is read again
    THEN PadTo(<<133, 86, 111, 99, 97, 108, 111, 105, 100, 32, 80, 111, 115, 101>>, 20)
    ELSE <<120, 120, 120, 120, 120, 120, 120, 120, 120, 120, 120, 120, 120, 120,
           86, 111, 99, 97, 108, 111>>                  \* "xxxxxxxxxxxxxxVocalo"

BinModelKinds == {"plain", "lf25", "cr35"}

BinModel(kind) ==
    IF kind = "plain" THEN PadTo(<<105, 100, 109, 105, 107, 117>>, 20)   \* "idmiku"
    ELSE IF kind = "lf25" THEN PadTo(<<109, 105, 107, 117, 0, 10>>, 20)  \* LF: byte 25
    ELSE PadTo(<<109, 105, 107, 117, 0, 0, 0, 0, 0, 0, 0, 0, 0, 0, 0, 13>>, 20)
                                                                         \* CR: byte 35

\* little-endian bytes of the bone count field
BinCounts ==
    {<<n, 0, 0, 0>> : n \in 0..(MaxRecords + 1)}
        \cup {<<16, 39, 0, 0>>,          \* 10000
              <<17, 39, 0, 0>>,          \* 10001
              <<0, 0, 1, 0>>,            \* 65536
              <<255, 255, 255, 255>>}    \* 4294967295

F32Zero == <<0, 0, 0, 0>>

F32One == <<0, 0, 128, 63>>

F32Half == <<0, 0, 0, 63>>

F32MinusHalf == <<0, 0, 0, 191>>

F32MinusOne == <<0, 0, 128, 191>>

F32MinusZero == <<0, 0, 0, 128>>

F32NaN == <<0, 0, 192, 127>>

RotKinds == <<"unit", "negw", "nanw", "negzero">>

\* the four floats x, y, z, w stored in a record of the given kind
BinRotation(kind) ==
    IF kind = "unit" THEN <<F32Zero, F32Zero, F32Zero, F32One>>
    ELSE IF kind = "negw" THEN <<F32Half, F32MinusHalf, F32Zero, F32MinusOne>>
    ELSE IF kind = "nanw" THEN <<F32Zero, F32One, F32Zero, F32NaN>>
    ELSE <<F32One, F32Zero, F32Zero, F32MinusZero>>

\* kind of the k-th record (0-based) of a file whose first record has kind
\* number `first`
RotKindOf(first, k) == RotKinds[((first + k) % 4) + 1]

\* the k-th record: name "B<k>", position (k as the low mantissa byte, 0, 1)
BinRecord(first, k) ==
    PadTo(<<66, 48 + k>>, 20)
        \o <<k, 0, 128, 63>> \o F32Zero \o F32One
        \o Flatten(BinRotation(RotKindOf(first, k)))

RECURSIVE BinRecords(_, _, _)
BinRecords(first, k, n) ==
    IF k >= n THEN <<>> ELSE BinRecord(first, k) \o BinRecords(first, k + 1, n)

BinFull(f) ==
    BinHeader(f.header) \o BinModel(f.model) \o f.count \o BinRecords(f.first, 0, f.nrec)

\* lengths at which a file of `full` bytes is cut
BinLengths(full) ==
    {n \in {0, 19, 43, 44, full - 48, full - 47, full - 1, full} : n >= 0 /\ n <= full}

BinFiles ==
    { [fmt |-> "binary", header |-> h, model |-> m, count |-> c, nrec |-> n,
       first |-> fst, length |-> len] :
        h \in BinHeaderKinds, m \in BinModelKinds, c \in BinCounts,
        n \in 0..MaxRecords, fst \in 0..3,
        len \in 0..(44 + 48 * MaxRecords) }

BinFileOk(f) ==
    /\ (f.nrec = 0 => f.first = 0)
    /\ (f.header # "marker" => f.model = "plain" /\ f.first = 0)
    /\ f.length \in BinLengths(44 + 48 * f.nrec)

BinBytes(f) == SubSeq(BinFull(f), 1, f.length)

\* ---- text files ------------------------------------------------------
TextHeaderKinds == {"none", "marker", "long"}

TextHeader(kind) ==
    IF kind = "marker"                             \* "Vocaloid Pose Data file"
    THEN <<86, 111, 99, 97, 108, 111, 105, 100, 32, 80, 111, 115, 101, 32, 68, 97,
           116, 97, 32, 102, 105, 108, 101>>
    ELSE <<86, 111, 99, 97, 108, 111, 105, 100, 32, 80, 111, 115, 101, 32, 68, 97,
           116, 97, 32, 102, 105, 108, 101>> \o <<32, 32, 47, 47>> \o
         <<118, 101, 114, 115, 105, 111, 110, 32, 49, 32, 111, 102, 32, 116, 104,
           101, 32, 112, 111, 115, 101>>           \* ... "  //version 1 of the pose"

FilenameLine == <<109, 105, 107, 117, 46, 111, 115, 109, 59>>   \* "miku.osm;"

CountLine(d) == <<48 + d, 59>>                                  \* "<d>;"

TextTemplateIds == 0..5

\* The k-th record written after template t: its four lines, whether its
\* numeric lines match their patterns, and the numbers they store.
TextRecord(t, k) ==
    LET marked == <<66, 111, 110, 101, 48 + k, 123, 78, 48 + k>>   \* "Bone<k>{N<k>"
        posK == <<48 + k, 44, 50, 44, 51>>                         \* "<k>,2,3"
        valK == Vector3(Dec(FALSE, k, 0), Dec(FALSE, 2, 0), Dec(FALSE, 3, 0))
        unitLine == <<48, 44, 48, 44, 48, 44, 49>>                 \* "0,0,0,1"
        unit == Quaternion(Zero, Zero, Zero, Dec(FALSE, 1, 0))
    IN  IF t = 0 THEN
            [nameLine |-> marked, name |-> <<78, 48 + k>>,
             posLine |-> posK, posOk |-> TRUE, pos |-> valK,
             rotLine |-> unitLine, rotOk |-> TRUE, rot |-> unit, brace |-> TRUE]
        ELSE IF t = 1 THEN
            [nameLine |-> marked, name |-> <<78, 48 + k>>,
             posLine |-> <<45, 49, 46, 53, 44, 32, 50, 32, 44, 51, 59>>, \* "-1.5, 2 ,3;"
             posOk |-> TRUE,
             pos |-> Vector3(Dec(TRUE, 15, -1), Dec(FALSE, 2, 0), Dec(FALSE, 3, 0)),
             rotLine |-> <<48, 46, 53, 44, 45, 48, 46, 53, 44, 48, 44, 45, 49, 59>>,
                                                                    \* "0.5,-0.5,0,-1;"
             rotOk |-> TRUE,
             rot |-> Quaternion(Dec(FALSE, 5, -1), Dec(TRUE, 5, -1), Zero,
                                Dec(TRUE, 1, 0)),
             brace |-> TRUE]
        ELSE IF t = 2 THEN
            [nameLine |-> marked, name |-> <<78, 48 + k>>,
             posLine |-> <<49, 59, 50, 59, 51>>,                    \* "1;2;3"
             posOk |-> FALSE, pos |-> valK,
             rotLine |-> <<32, 32, 48, 46, 50, 53, 44, 48, 44, 48, 44, 49, 59, 32, 32,
                           47, 47, 32, 113>>,                   \* "  0.25,0,0,1;  // q"
             rotOk |-> TRUE,
             rot |-> Quaternion(Dec(FALSE, 25, -2), Zero, Zero, Dec(FALSE, 1, 0)),
             brace |-> TRUE]
        ELSE IF t = 3 THEN
            [nameLine |-> marked, name |-> <<78, 48 + k>>,
             posLine |-> posK, posOk |-> TRUE, pos |-> valK,
             rotLine |-> <<48, 44, 48, 44, 49>>,                    \* "0,0,1"
             rotOk |-> FALSE, rot |-> unit, brace |-> TRUE]
        ELSE IF t = 4 THEN
            [nameLine |-> marked, name |-> <<78, 48 + k>>,
             posLine |-> posK, posOk |-> TRUE, pos |-> valK,
             rotLine |-> <<48, 44, 48, 44, 48, 44, 45>>,            \* "0,0,0,-"
             rotOk |-> TRUE, rot |-> Quaternion(Zero, Zero, Zero, NaN),
             brace |-> TRUE]
        ELSE
            [nameLine |-> <<141, 182, 131, 90, 131, 147, 131, 94, 129, 91>>,
                                              \* Shift-JIS name: a kanji, four kana
             name |-> <<24038, 12475, 12531, 12479, 12540>>,
             posLine |-> posK, posOk |-> TRUE, pos |-> valK,
             rotLine |-> <<48, 44, 49, 44, 48, 44, 45, 48>>,        \* "0,1,0,-0"
             rotOk |-> TRUE,
             rot |-> Quaternion(Zero, Dec(FALSE, 1, 0), Zero, Dec(TRUE, 0, 0)),
             brace |-> FALSE]

\* template of the k-th record of file f
TemplateOf(f, k) == (f.first + k) % Cardinality(TextTemplateIds)

Line(text, rec, role) == [text |-> text, rec |-> rec, role |-> role]

RecordLines(f, k) ==
    LET r == TextRecord(TemplateOf(f, k), k) IN
    <<Line(r.nameLine, k, "name"), Line(r.posLine, k, "pos"), Line(r.rotLine, k, "rot")>>
        \o (IF r.brace THEN <<Line(<<125>>, k, "brace")>> ELSE <<>>)
        \o (IF f.blank THEN <<Line(<<>>, k, "blank")>> ELSE <<>>)

RECURSIVE AllRecordLines(_, _)
AllRecordLines(f, k) ==
    IF k >= f.nrec THEN <<>> ELSE RecordLines(f, k) \o AllRecordLines(f, k + 1)

\* every line of the file before anything is cut off its end
TextAllLines(f) ==
    (IF f.header = "none" THEN <<>> ELSE <<Line(TextHeader(f.header), -1, "header")>>)
        \o (IF f.blank /\ f.header # "none" THEN <<Line(<<>>, -1, "blank")>> ELSE <<>>)
        \o (IF f.filename THEN <<Line(FilenameLine, -1, "filename")>> ELSE <<>>)
        \o <<Line(CountLine(f.declared), -1, "count")>>
        \o (IF f.blank THEN <<Line(<<>>, -1, "blank")>> ELSE <<>>)
        \o AllRecordLines(f, 0)

\* the lines the file holds
FileLines(f) ==
    LET all == TextAllLines(f) IN SubSeq(all, 1, Len(all) - f.cut)

Eol(kind) == IF kind = "lf" THEN <<10>> ELSE IF kind = "crlf" THEN <<13, 10>> ELSE <<13>>

RECURSIVE JoinLines(_, _)
JoinLines(ls, eol) ==
    IF ls = <<>> THEN <<>> ELSE Head(ls).text \o eol \o JoinLines(Tail(ls), eol)

TextBytes(f) == JoinLines(FileLines(f), Eol(f.eol))

TextFiles ==
    { [fmt |-> "text", header |-> h, filename |-> fn, declared |-> d, nrec |-> n,
       first |-> fst, blank |-> b, eol |-> e, cut |-> c] :
        h \in TextHeaderKinds, fn \in BOOLEAN, d \in 0..(MaxRecords + 1),
        n \in 0..MaxRecords, fst \in TextTemplateIds, b \in BOOLEAN,
        e \in {"lf", "crlf", "cr"}, c \in 0..MaxCut }

TextFileOk(f) ==
    /\ (f.nrec = 0 => f.first = 0)
    /\ f.cut < Len(TextAllLines(f))
    /\ (f.eol = "cr" => f.cut = 0 /\ ~f.blank)
    /\ (f.header = "long" => f.cut = 0 /\ ~f.blank /\ f.eol = "lf" /\ f.first = 0)

\* "Vocaloid Pose Data\n2\nBone0{Hip\n0,0,0\n0,0,0,1\n}\n": a count of 2 and
\* one record
ExampleFile == [fmt |-> "example"]

ExampleBytes ==
    <<86, 111, 99, 97, 108, 111, 105, 100, 32, 80, 111, 115, 101, 32, 68, 97, 116, 97, 10,
      50, 10,
      66, 111, 110, 101, 48, 123, 72, 105, 112, 10,
      48, 44, 48, 44, 48, 10,
      48, 44, 48, 44, 48, 44, 49, 10,
      125, 10>>

VpdFiles ==
    {f \in BinFiles : BinFileOk(f)} \cup {f \in TextFiles : TextFileOk(f)}
        \cup {ExampleFile}

FileBytes(f) ==
    IF f.fmt = "binary" THEN BinBytes(f)
    ELSE IF f.fmt = "text" THEN TextBytes(f)
    ELSE ExampleBytes

NoFile == [fmt |-> "none"]

NoResult == [status |-> "none"]

(***************************************************************************)
(* The two loaders (vpdLoader.ts 10-22 and 323-340).  Every call has a     *)
(* promise of its own, and a FileReader or a fetch of its own, so any      *)
(* number of calls can be in flight; a call shares nothing with another.   *)
(*   LoadFromFile: "reading", then onload parses the bytes ("settled") or  *)
(*     onerror rejects ("failed").                                         *)
(*   LoadVpdFile: "fetching", then "buffering" once fetch gave a response  *)
(*     that is ok, then the bytes are parsed ("settled"); a rejected       *)
(*     fetch, a response that is not ok and a rejected arrayBuffer() are   *)
(*     rethrown by the catch ("failed").                                   *)
(***************************************************************************)
MaxLoads == 2       \* calls of the loaders

\* a promise rejected before ParseVpd was reached
Rejected(error) == [status |-> "rejected", error |-> error]

VpdInit == vpdLoads = <<>>

\* the call's record once it moved on
Settle(k, phase, result) ==
    [vpdLoads EXCEPT ![k] = [@ EXCEPT !.phase = phase, !.result = result]]

InPhase(k, phase) == k \in DOMAIN vpdLoads /\ vpdLoads[k].phase = phase

\* new FileReader(); ...; reader.readAsArrayBuffer(file)
LoadFromFile(f) ==
    /\ Len(vpdLoads) < MaxLoads
    /\ vpdLoads' = Append(vpdLoads, [phase |-> "reading", file |-> f,
                                      data |-> FileBytes(f), result |-> NoResult])
    /\ UNCHANGED rtVars
    /\ UNCHANGED fxVars
    /\ UNCHANGED bcVars
    /\ UNCHANGED uiVars

\* reader.onload: resolve(ParseVpd(...)), or reject(error) with what it threw
ReaderOnLoad(k) ==
    /\ InPhase(k, "reading")
    /\ vpdLoads' = Settle(k, "settled", ParseVpd(vpdLoads[k].data))
    /\ UNCHANGED rtVars
    /\ UNCHANGED fxVars
    /\ UNCHANGED bcVars
    /\ UNCHANGED uiVars

\* reader.onerror: reject(reader.error); the bytes are never parsed
ReaderOnError(k) ==
    /\ InPhase(k, "reading")
    /\ vpdLoads' = Settle(k, "failed", Rejected("reader.error"))
    /\ UNCHANGED rtVars
    /\ UNCHANGED fxVars
    /\ UNCHANGED bcVars
    /\ UNCHANGED uiVars

\* const response = await fetch(filePath): the call waits for the response
LoadVpdFile(f) ==
    /\ Len(vpdLoads) < MaxLoads
    /\ vpdLoads' = Append(vpdLoads, [phase |-> "fetching", file |-> f,
                                      data |-> FileBytes(f), result |-> NoResult])
    /\ UNCHANGED rtVars
    /\ UNCHANGED fxVars
    /\ UNCHANGED bcVars
    /\ UNCHANGED uiVars

FetchOutcomes == {"ok", "notOk", "rejected"}

\* fetch settles: a response that is ok goes on to response.arrayBuffer(); one
\* that is not ok throws "Failed to load VPD file: <statusText>"; a rejected
\* fetch throws its error; the catch logs and rethrows
FetchSettles(k, outcome) ==
    /\ InPhase(k, "fetching")
    /\ vpdLoads' =
        IF outcome = "ok" THEN Settle(k, "buffering", NoResult)
        ELSE IF outcome = "notOk"
        THEN Settle(k, "failed", Rejected("Failed to load VPD file: statusText"))
        ELSE Settle(k, "failed", Rejected("fetch error"))
    /\ UNCHANGED rtVars
    /\ UNCHANGED fxVars
    /\ UNCHANGED bcVars
    /\ UNCHANGED uiVars

\* response.arrayBuffer() settles: return this.ParseVpd(new Uint8Array(buffer)),
\* whose error the catch rethrows; a rejected arrayBuffer() is rethrown too
ArrayBufferSettles(k, resolved) ==
    /\ InPhase(k, "buffering")
    /\ vpdLoads' =
        IF resolved THEN Settle(k, "settled", ParseVpd(vpdLoads[k].data))
        ELSE Settle(k, "failed", Rejected("arrayBuffer error"))
    /\ UNCHANGED rtVars
    /\ UNCHANGED fxVars
    /\ UNCHANGED bcVars
    /\ UNCHANGED uiVars

\* The first call, which the claims on ParseVpd are settled on.
vpdPhase == IF vpdLoads = <<>> THEN "idle" ELSE vpdLoads[1].phase

vpdFile == IF vpdLoads = <<>> THEN NoFile ELSE vpdLoads[1].file

vpdData == IF vpdLoads = <<>> THEN <<>> ELSE vpdLoads[1].data

vpdResult == IF vpdLoads = <<>> THEN NoResult ELSE vpdLoads[1].result

(***************************************************************************)
(* JavaScript objects of the retargeter (part_001).  Objects live on       *)
(* heaps, one per kind, and are referred to by address, so that a copy and *)
(* an alias are different things.  An array is part of the object that     *)
(* holds it.                                                               *)
(***************************************************************************)
Heap == [docs |-> docs, groups |-> groups, chans |-> chans, tracks |-> tracks]

EmptyHeap == [docs |-> <<>>, groups |-> <<>>, chans |-> <<>>, tracks |-> <<>>]

\* Deep value of a channel, a group, a document: what deep equality compares.
ChanValue(H, a) == [boneName |-> H.chans[a].boneName, track |-> H.tracks[H.chans[a].track]]

GroupValue(H, g) ==
    [hasBones |-> H.groups[g].hasBones,
     boneAnimations |-> [j \in 1..Len(H.groups[g].boneAnimations) |->
                            ChanValue(H, H.groups[g].boneAnimations[j])],
     morphAnimations |-> H.groups[g].morphAnimations]

DocValue(H, d) ==
    [hasAnimations |-> H.docs[d].hasAnimations,
     animations |-> [i \in 1..Len(H.docs[d].animations) |->
                        GroupValue(H, H.docs[d].animations[i])]]

\* JSON.stringify of a number: NaN and the infinities are written as null.
JsonNumber(v) == IF v \in {"NaN", "Infinity", "-Infinity"} THEN "null" ELSE v

\* What JSON.stringify writes for a deep value and JSON.parse reads back.
JsonValue(V) ==
    [hasAnimations |-> V.hasAnimations,
     animations |-> [i \in 1..Len(V.animations) |->
        [hasBones |-> V.animations[i].hasBones,
         boneAnimations |-> [j \in 1..Len(V.animations[i].boneAnimations) |->
            [boneName |-> V.animations[i].boneAnimations[j].boneName,
             track |-> [k \in 1..Len(V.animations[i].boneAnimations[j].track) |->
                           JsonNumber(V.animations[i].boneAnimations[j].track[k])]]],
         morphAnimations |-> V.animations[i].morphAnimations]]]

\* number of channels in the groups before group i
RECURSIVE ChansBefore(_, _)
ChansBefore(V, i) ==
    IF i <= 1 THEN 0
    ELSE ChansBefore(V, i - 1) + Len(V.animations[i - 1].boneAnimations)

\* Fresh objects for the deep value V (what JSON.parse and an object literal
\* build): the new heap and the address of the new document.
AllocDoc(H, V) ==
    LET ng == Len(V.animations)
        nc(i) == Len(V.animations[i].boneAnimations)
        chanAddr(i, j) == Len(H.chans) + ChansBefore(V, i) + j
        trackAddr(i, j) == Len(H.tracks) + ChansBefore(V, i) + j
    IN  [heap |->
            [docs |-> Append(H.docs,
                        [hasAnimations |-> V.hasAnimations,
                         animations |-> [i \in 1..ng |-> Len(H.groups) + i]]),
             groups |-> H.groups \o
                        [i \in 1..ng |->
                            [hasBones |-> V.animations[i].hasBones,
                             boneAnimations |-> [j \in 1..nc(i) |-> chanAddr(i, j)],
                             morphAnimations |-> V.animations[i].morphAnimations]],
             chans |-> H.chans \o
                       Flatten([i \in 1..ng |-> [j \in 1..nc(i) |->
                           [boneName |-> V.animations[i].boneAnimations[j].boneName,
                            track |-> trackAddr(i, j)]]]),
             tracks |-> H.tracks \o
                        Flatten([i \in 1..ng |-> [j \in 1..nc(i) |->
                            V.animations[i].boneAnimations[j].track]])],
         addr |-> Len(H.docs) + 1]

\* A copy that shares every object with the original: what the clone is not.
AliasDoc(H, d) == [heap |-> H, addr |-> d]

\* JSON.parse(JSON.stringify(animationHandle))
JsonClone(H, d) == AllocDoc(H, JsonValue(DocValue(H, d)))

(***************************************************************************)
(* HumanoidRetargeter (part_001 87-401)                                    *)
(***************************************************************************)
\* the properties every plain object inherits from Object.prototype: the
\* names k for which `k in {}` is true
ObjectPrototypeKeys ==
    {"constructor", "__defineGetter__", "__defineSetter__", "hasOwnProperty",
     "__lookupGetter__", "__lookupSetter__", "isPrototypeOf", "propertyIsEnumerable",
     "toString", "valueOf", "__proto__", "toLocaleString"}

\* what an inherited property holds: Object.prototype itself for __proto__, a
\* function for every other name
InheritedValue(key) == IF key = "__proto__" THEN "[Object]" ELSE "[Function]"

\* obj[key] on a plain object: the own value, else the inherited one, else
\* undefined (found = FALSE)
GetProperty(obj, key) ==
    IF key \in DOMAIN obj THEN [found |-> TRUE, value |-> obj[key]]
    ELSE IF key \in ObjectPrototypeKeys THEN [found |-> TRUE, value |-> InheritedValue(key)]
    ELSE [found |-> FALSE, value |-> ""]

\* ToBoolean of a looked-up value: undefined and "" are falsy
Truthy(v) == v.found /\ v.value # ""

\* this._config.boneMapping of retargeter r
BoneMappingOf(r) == maps[configs[retargeters[r].config].boneMapping]

\* if (targetBoneName) { ... }: whether the channel is kept
KeepsChannel(mapping, sourceBoneName) == Truthy(GetProperty(mapping, sourceBoneName))

\* The loop over skeletonAnimation.boneAnimations: a new channel object
\* { ...boneAnim, boneName: targetBoneName } for each channel that is kept,
\* and the group's boneAnimations replaced by the new array.
RetargetGroup(H, g, mapping) ==
    LET kept == SelectSeq(H.groups[g].boneAnimations,
                          LAMBDA a : KeepsChannel(mapping, H.chans[a].boneName))
    IN  [H EXCEPT
            !.chans = H.chans \o
                [j \in 1..Len(kept) |->
                    [H.chans[kept[j]] EXCEPT
                        !.boneName = GetProperty(mapping, H.chans[kept[j]].boneName).value]],
            !.groups[g].boneAnimations = [j \in 1..Len(kept) |-> Len(H.chans) + j]]

\* retargetAnimationData: the heap after the call and the address returned
retargetAnimationData(H, mapping, animationHandle) ==
    LET clone == JsonClone(H, animationHandle)
        handle == clone.heap.docs[clone.addr]
    IN  IF ~handle.hasAnimations \/ Len(handle.animations) = 0 THEN clone
        ELSE LET g == handle.animations[1] IN
             IF clone.heap.groups[g].hasBones
             THEN [heap |-> RetargetGroup(clone.heap, g, mapping), addr |-> clone.addr]
             ELSE clone

(***************************************************************************)
(* Documents and retargeters of the model                                  *)
(***************************************************************************)
MaxChannels == 2    \* bone channels in the first animation group

MaxCalls == 2       \* calls of retargetAnimationData on the document

BoneNames == {"leftUpperArm", "tail01", "constructor"}

\* keyframe values of the j-th channel of a group
TrackOf(j) == IF j % 2 = 1 THEN <<"0", "1">> ELSE <<"NaN">>

ChannelsNamed(names) ==
    [j \in 1..Len(names) |-> [boneName |-> names[j], track |-> TrackOf(j)]]

NameSeqs == UNION {[1..n -> BoneNames] : n \in 0..MaxChannels}

GroupWith(names) ==
    [hasBones |-> TRUE, boneAnimations |-> ChannelsNamed(names),
     morphAnimations |-> <<"smile">>]

\* a group without a boneAnimations property
GroupWithoutBones ==
    [hasBones |-> FALSE, boneAnimations |-> <<>>, morphAnimations |-> <<"blink">>]

SecondGroups == {GroupWith(<<"leftUpperArm", "tail01">>), GroupWithoutBones}

InputDocs ==
    {[hasAnimations |-> FALSE, animations |-> <<>>],
     [hasAnimations |-> TRUE, animations |-> <<>>],
     [hasAnimations |-> TRUE, animations |-> <<GroupWithoutBones>>]}
    \cup {[hasAnimations |-> TRUE, animations |-> <<GroupWith(ns)>>] : ns \in NameSeqs}
    \cup {[hasAnimations |-> TRUE, animations |-> <<GroupWith(ns), g2>>] :
            ns \in NameSeqs, g2 \in SecondGroups}

\* The configs the callers construct retargeters with.
\* MMD bone names are written in Latin letters: jp_hidariude is the left arm,
\* jp_shippo a tail.
RetargeterConfigs ==
    << [sourceSkeleton |-> "MIXAMO", targetSkeleton |-> "MMD",
        boneMapping |-> ("leftUpperArm" :> "jp_hidariude")],
       [sourceSkeleton |-> "none", targetSkeleton |-> "MMD",
        boneMapping |-> ("leftUpperArm" :> "" @@ "tail01" :> "jp_shippo")],
       [sourceSkeleton |-> "MMD_NO_UPPER_ARM", targetSkeleton |-> "MIXAMO",
        boneMapping |-> ("jp_hidarihiji" :> "LeftForeArm")] >>

\* nothing asked of a retargeter yet
NoCall == [op |-> "none"]

\* no retargeter made, nothing held by the caller
FxIdle ==
    /\ origins = <<>>
    /\ callerMaps = {}
    /\ callerConfigs = {}
    /\ lastCall = NoCall

RtInit ==
    /\ maps = <<>>
    /\ configs = <<>>
    /\ retargeters = <<>>
    /\ \E V \in InputDocs :
        /\ docs = AllocDoc(EmptyHeap, V).heap.docs
        /\ groups = AllocDoc(EmptyHeap, V).heap.groups
        /\ chans = AllocDoc(EmptyHeap, V).heap.chans
        /\ tracks = AllocDoc(EmptyHeap, V).heap.tracks
        /\ inputSnapshot = V
    /\ inputDoc = 1
    /\ returned = <<>>
    /\ returnedBy = <<>>
    /\ returnedAt = <<>>
    /\ mutated = {}
    /\ FxIdle

\* new HumanoidRetargeter(model, config) by the caller, who built the config
\* object and its boneMapping and still holds both: the instance keeps the
\* config object it is given
Construct(i) ==
    /\ Len(retargeters) < Len(RetargeterConfigs)
    /\ LET c == RetargeterConfigs[i] IN
        /\ maps' = Append(maps, c.boneMapping)
        /\ configs' = Append(configs, [c EXCEPT !.boneMapping = Len(maps) + 1])
        /\ retargeters' = Append(retargeters, [config |-> Len(configs) + 1])
        /\ origins' = Append(origins, [made |-> "constructor", given |-> FALSE,
                                       custom |-> <<>>])
        /\ callerMaps' = callerMaps \cup {Len(maps) + 1}
        /\ callerConfigs' = callerConfigs \cup {Len(configs) + 1}
    /\ UNCHANGED vpdVars
    /\ UNCHANGED bcVars
    /\ UNCHANGED uiVars
    /\ UNCHANGED <<docs, groups, chans, tracks, inputDoc, inputSnapshot,
                   returned, returnedBy, returnedAt, mutated, lastCall>>

(***************************************************************************)
(* The shipped skeletons and the factories (part_001 92-255).  The MMD     *)
(* bone names are written in Latin letters, one distinct name per          *)
(* Japanese name: jp_center, jp_koshi, jp_jouhanshin, jp_jouhanshin2,      *)
(* jp_kubi, jp_atama, jp_<side>kata, jp_<side>ude, jp_<side>hiji,          *)
(* jp_<side>tekubi, jp_<side>ashi, jp_<side>hiza, jp_<side>ashikubi.       *)
(***************************************************************************)
MIXAMO_SKELETON ==
    [hips |-> "Hips", spine |-> "Spine", spine1 |-> "Spine1", spine2 |-> "Spine2",
     chest |-> "Chest", neck |-> "Neck", head |-> "Head",
     leftShoulder |-> "LeftShoulder", leftUpperArm |-> "LeftArm",
     leftForeArm |-> "LeftForeArm", leftHand |-> "LeftHand",
     rightShoulder |-> "RightShoulder", rightUpperArm |-> "RightArm",
     rightForeArm |-> "RightForeArm", rightHand |-> "RightHand",
     leftHip |-> "LeftUpLeg", leftKnee |-> "LeftLeg", leftAnkle |-> "LeftFoot",
     rightHip |-> "RightUpLeg", rightKnee |-> "RightLeg", rightAnkle |-> "RightFoot"]

MMD_SKELETON ==
    [hips |-> "jp_center", spine |-> "jp_koshi", spine1 |-> "jp_jouhanshin",
     chest |-> "jp_jouhanshin2", neck |-> "jp_kubi", head |-> "jp_atama",
     leftShoulder |-> "jp_hidarikata", leftUpperArm |-> "jp_hidariude",
     leftForeArm |-> "jp_hidarihiji", leftHand |-> "jp_hidaritekubi",
     rightShoulder |-> "jp_migikata", rightUpperArm |-> "jp_migiude",
     rightForeArm |-> "jp_migihiji", rightHand |-> "jp_migitekubi",
     leftHip |-> "jp_hidariashi", leftKnee |-> "jp_hidarihiza",
     leftAnkle |-> "jp_hidariashikubi",
     rightHip |-> "jp_migiashi", rightKnee |-> "jp_migihiza",
     rightAnkle |-> "jp_migiashikubi"]

\* the bones of the skeleton a config names ("none": no sourceSkeleton);
\* MMD_NO_UPPER_ARM is a caller's skeleton with a blank upper-arm name
SkeletonBones(name) ==
    IF name = "MIXAMO" THEN MIXAMO_SKELETON
    ELSE IF name = "MMD" THEN MMD_SKELETON
    ELSE [MMD_SKELETON EXCEPT !.leftUpperArm = ""]

\* defaultMapping of CreateMixamoToMMD
MixamoToMMDDefault ==
    [hips |-> "jp_center", spine |-> "jp_koshi", spine1 |-> "jp_jouhanshin",
     spine2 |-> "jp_jouhanshin2", chest |-> "jp_jouhanshin2", neck |-> "jp_kubi",
     head |-> "jp_atama", leftShoulder |-> "jp_hidarikata", leftArm |-> "jp_hidariude",
     leftForeArm |-> "jp_hidarihiji", leftHand |-> "jp_hidaritekubi",
     rightShoulder |-> "jp_migikata", rightArm |-> "jp_migiude",
     rightForeArm |-> "jp_migihiji", rightHand |-> "jp_migitekubi",
     leftUpLeg |-> "jp_hidariashi", leftLeg |-> "jp_hidarihiza",
     leftFoot |-> "jp_hidariashikubi", rightUpLeg |-> "jp_migiashi",
     rightLeg |-> "jp_migihiza", rightFoot |-> "jp_migiashikubi"]


\* defaultMapping of CreateMMDToMixamo
MMDToMixamoDefault ==
    [jp_center |-> "hips", jp_koshi |-> "spine", jp_jouhanshin |-> "spine1",
     jp_jouhanshin2 |-> "chest", jp_kubi |-> "neck", jp_atama |-> "head",
     jp_hidarikata |-> "leftShoulder", jp_hidariude |-> "leftArm",
     jp_hidarihiji |-> "leftForeArm", jp_hidaritekubi |-> "leftHand",
     jp_migikata |-> "rightShoulder", jp_migiude |-> "rightArm",
     jp_migihiji |-> "rightForeArm", jp_migitekubi |-> "rightHand",
     jp_hidariashi |-> "leftUpLeg", jp_hidarihiza |-> "leftLeg",
     jp_hidariashikubi |-> "leftFoot", jp_migiashi |-> "rightUpLeg",
     jp_migihiza |-> "rightLeg", jp_migiashikubi |-> "rightFoot"]

\* the customBoneMapping argument: not given (undefined), or a table
NoCustom == [given |-> FALSE, table |-> <<>>]

Custom(table) == [given |-> TRUE, table |-> table]

\* (a merge in which the defaults win)
SpreadDefaultsLast(defaultMapping, custom) ==
    [k \in DOMAIN defaultMapping \cup DOMAIN custom.table |->
        IF k \in DOMAIN defaultMapping THEN defaultMapping[k] ELSE custom.table[k]]

\* { ...defaultMapping, ...(customBoneMapping || {}) }: a new object with
\* the own properties of both, the custom value where both have the key
Spread(defaultMapping, custom) ==
    [k \in DOMAIN defaultMapping \cup DOMAIN custom.table |->
        IF k \in DOMAIN custom.table THEN custom.table[k] ELSE defaultMapping[k]]

\* The body of both factories: the caller's table (if any) is an object the
\* caller holds; the merged table and the config are new objects that only
\* the instance holds.
CreateWith(made, defaultMapping, source, target, custom) ==
    LET held == IF custom.given THEN Append(maps, custom.table) ELSE maps IN
    /\ maps' = Append(held, Spread(defaultMapping, custom))
    /\ configs' = Append(configs,
                    [sourceSkeleton |-> source, targetSkeleton |-> target,
                     boneMapping |-> Len(held) + 1])
    /\ retargeters' = Append(retargeters, [config |-> Len(configs) + 1])
    /\ origins' = Append(origins, [made |-> made, given |-> custom.given,
                                   custom |-> custom.table])
    /\ callerMaps' = IF custom.given THEN callerMaps \cup {Len(held)} ELSE callerMaps
    /\ UNCHANGED vpdVars
    /\ UNCHANGED bcVars
    /\ UNCHANGED uiVars
    /\ UNCHANGED <<docs, groups, chans, tracks, inputDoc, inputSnapshot,
                   returned, returnedBy, returnedAt, mutated, callerConfigs, lastCall>>

CreateMixamoToMMD(custom) ==
    CreateWith("CreateMixamoToMMD", MixamoToMMDDefault, "MIXAMO", "MMD", custom)

CreateMMDToMixamo(custom) ==
    CreateWith("CreateMMDToMixamo", MMDToMixamoDefault, "MMD", "MIXAMO", custom)

(***************************************************************************)
(* Queries (part_001 306-322, 359-386)                                     *)
(***************************************************************************)
\* this._config.boneMapping[sourceBoneName] || null
getTargetBoneName(mapping, sourceBoneName) ==
    IF Truthy(GetProperty(mapping, sourceBoneName))
    THEN GetProperty(mapping, sourceBoneName).value
    ELSE "null"

\* sourceBoneName in this._config.boneMapping
isBoneMapped(mapping, sourceBoneName) == GetProperty(mapping, sourceBoneName).found

\* new Map(Object.entries(this._config.boneMapping)): a new Map with the own
\* properties of the mapping
getMappedBones(mapping) == [k \in DOMAIN mapping |-> mapping[k]]

RECURSIVE Gcd(_, _)
Gcd(a, b) == IF b = 0 THEN a ELSE Gcd(b, a % b)

Abs(a) == IF a < 0 THEN -a ELSE a

\* a / b on two integers: NaN, an infinity, or the fraction in lowest terms
Divide(a, b) ==
    IF b = 0
    THEN [nan |-> a = 0, inf |-> a # 0, neg |-> a < 0, num |-> 0, den |-> 0]
    ELSE LET g == Gcd(Abs(a), Abs(b)) IN
         [nan |-> FALSE, inf |-> FALSE, neg |-> (a < 0) # (b < 0) /\ a # 0,
          num |-> Abs(a) \div g, den |-> Abs(b) \div g]

\* [ ... ].filter(Boolean): the names that are not blank
FilterBoolean(names) == SelectSeq(names, LAMBDA n : n # "")

\* the source limbs of a config: none without a source skeleton
SourceLimbs(config) ==
    IF config.sourceSkeleton = "none" THEN <<>>
    ELSE FilterBoolean(<<SkeletonBones(config.sourceSkeleton).leftUpperArm,
                         SkeletonBones(config.sourceSkeleton).leftForeArm>>)

TargetLimbs(config) ==
    <<SkeletonBones(config.targetSkeleton).leftUpperArm,
      SkeletonBones(config.targetSkeleton).leftForeArm>>

RECURSIVE TotalLength(_, _, _)
TotalLength(getBoneLength, limbs, n) ==
    IF n = 0 THEN 0 ELSE TotalLength(getBoneLength, limbs, n - 1) + getBoneLength[limbs[n]]

\* (a guard that lets a zero total through)
TotalNotNegative(totalTargetLength) == totalTargetLength >= 0

\* totalTargetLength > 0
TotalAboveZero(totalTargetLength) == totalTargetLength > 0

\* (the ratio the other way round)
TargetOverSource(totalSourceLength, totalTargetLength) ==
    Divide(totalTargetLength, totalSourceLength)

\* totalSourceLength / totalTargetLength
SourceOverTarget(totalSourceLength, totalTargetLength) ==
    Divide(totalSourceLength, totalTargetLength)

calculateScaleFactor(config, getSourceBoneLength, getTargetBoneLength) ==
    LET sourceLimbs == SourceLimbs(config)
        targetLimbs == TargetLimbs(config)
        totalSourceLength == TotalLength(getSourceBoneLength, sourceLimbs, Len(sourceLimbs))
        totalTargetLength == TotalLength(getTargetBoneLength, targetLimbs, Len(sourceLimbs))
    IN  IF Len(sourceLimbs) = 0 THEN Divide(1, 1)
        ELSE IF TotalAboveZero(totalTargetLength)
             THEN SourceOverTarget(totalSourceLength, totalTargetLength)
             ELSE Divide(1, 1)

\* retargeter r is called on the caller's document
CallRetarget(r) ==
    /\ Len(returned) < MaxCalls
    /\ mutated = {}
    /\ LET out == retargetAnimationData(Heap, BoneMappingOf(r), inputDoc) IN
        /\ docs' = out.heap.docs
        /\ groups' = out.heap.groups
        /\ chans' = out.heap.chans
        /\ tracks' = out.heap.tracks
        /\ returned' = Append(returned, out.addr)
        /\ returnedBy' = Append(returnedBy, r)
        /\ returnedAt' = Append(returnedAt, DocValue(out.heap, out.addr))
    /\ UNCHANGED vpdVars
    /\ UNCHANGED bcVars
    /\ UNCHANGED uiVars
    /\ UNCHANGED fxVars
    /\ UNCHANGED <<maps, configs, retargeters, inputDoc, inputSnapshot, mutated>>

\* The caller writes to a document it got back: it renames a channel, ...
MutateBoneName(i, g, j) ==
    /\ mutated = {}
    /\ i \in 1..Len(returned)
    /\ g \in 1..Len(docs[returned[i]].animations)
    /\ j \in 1..Len(groups[docs[returned[i]].animations[g]].boneAnimations)
    /\ chans' = [chans EXCEPT
                    ![groups[docs[returned[i]].animations[g]].boneAnimations[j]].boneName =
                        "renamed"]
    /\ mutated' = {i}
    /\ UNCHANGED vpdVars
    /\ UNCHANGED bcVars
    /\ UNCHANGED uiVars
    /\ UNCHANGED fxVars
    /\ UNCHANGED <<maps, configs, retargeters, docs, groups, tracks, inputDoc,
                   inputSnapshot, returned, returnedBy, returnedAt>>

\* ... overwrites a keyframe, ...
MutateTrack(i, g, j) ==
    /\ mutated = {}
    /\ i \in 1..Len(returned)
    /\ g \in 1..Len(docs[returned[i]].animations)
    /\ j \in 1..Len(groups[docs[returned[i]].animations[g]].boneAnimations)
    /\ LET t == chans[groups[docs[returned[i]].animations[g]].boneAnimations[j]].track IN
        tracks' = [tracks EXCEPT ![t] = [tracks[t] EXCEPT ![1] = "9"]]
    /\ mutated' = {i}
    /\ UNCHANGED vpdVars
    /\ UNCHANGED bcVars
    /\ UNCHANGED uiVars
    /\ UNCHANGED fxVars
    /\ UNCHANGED <<maps, configs, retargeters, docs, groups, chans, inputDoc,
                   inputSnapshot, returned, returnedBy, returnedAt>>

\* ... empties a group's channel array, ...
MutateGroup(i, g) ==
    /\ mutated = {}
    /\ i \in 1..Len(returned)
    /\ g \in 1..Len(docs[returned[i]].animations)
    /\ groups' = [groups EXCEPT ![docs[returned[i]].animations[g]] =
                    [@ EXCEPT !.hasBones = TRUE, !.boneAnimations = <<>>,
                              !.morphAnimations = <<>>]]
    /\ mutated' = {i}
    /\ UNCHANGED vpdVars
    /\ UNCHANGED bcVars
    /\ UNCHANGED uiVars
    /\ UNCHANGED fxVars
    /\ UNCHANGED <<maps, configs, retargeters, docs, chans, tracks, inputDoc,
                   inputSnapshot, returned, returnedBy, returnedAt>>

\* ... or replaces the animations array.
MutateDoc(i) ==
    /\ mutated = {}
    /\ i \in 1..Len(returned)
    /\ docs' = [docs EXCEPT ![returned[i]] =
                    [hasAnimations |-> TRUE, animations |-> <<>>]]
    /\ docs' # docs
    /\ mutated' = {i}
    /\ UNCHANGED vpdVars
    /\ UNCHANGED bcVars
    /\ UNCHANGED uiVars
    /\ UNCHANGED fxVars
    /\ UNCHANGED <<maps, configs, retargeters, groups, chans, tracks, inputDoc,
                   inputSnapshot, returned, returnedBy, returnedAt>>

(***************************************************************************)
(* Callers of the factories and of the queries                             *)
(***************************************************************************)
MaxRetargeters == 2   \* retargeters made in one behaviour

\* what callers pass as customBoneMapping: nothing, or a table with one key
\* of the default table and one new key
MixamoCustoms == {NoCustom, Custom([leftArm |-> "custom_arm", tail01 |-> "jp_shippo"])}

MMDCustoms == {NoCustom, Custom([jp_hidariude |-> "custom_arm", jp_shippo |-> "tail01"])}

\* names callers ask about
QueryNames ==
    {"leftArm", "LeftArm", "leftUpperArm", "jp_hidariude", "tail01", "constructor",
     "toString", "__proto__", "written"}

\* lengths the two lookups return
Lengths == {0, 1, 2}

UpperArmNames == {MIXAMO_SKELETON.leftUpperArm, MMD_SKELETON.leftUpperArm}

ForeArmNames == {MIXAMO_SKELETON.leftForeArm, MMD_SKELETON.leftForeArm}

\* a lookup that gives every upper arm the length upper, every forearm fore
\* and knows no bone with a blank name
LengthLookup(upper, fore) ==
    [n \in UpperArmNames \cup ForeArmNames \cup {""} |->
        IF n \in UpperArmNames THEN upper ELSE IF n \in ForeArmNames THEN fore ELSE 0]

MakeMixamoToMMD(custom) ==
    /\ Len(retargeters) < MaxRetargeters
    /\ CreateMixamoToMMD(custom)

MakeMMDToMixamo(custom) ==
    /\ Len(retargeters) < MaxRetargeters
    /\ CreateMMDToMixamo(custom)

MakeWithConstructor(i) ==
    /\ Len(retargeters) < MaxRetargeters
    /\ Construct(i)

\* nothing but lastCall changes in a query
QueryFrame ==
    /\ UNCHANGED vpdVars
    /\ UNCHANGED bcVars
    /\ UNCHANGED uiVars
    /\ UNCHANGED rtVars
    /\ UNCHANGED <<origins, callerMaps, callerConfigs>>

GetTargetBoneName(r, name) ==
    /\ lastCall' = [op |-> "getTargetBoneName", by |-> r, name |-> name,
                    result |-> getTargetBoneName(BoneMappingOf(r), name)]
    /\ QueryFrame

IsBoneMapped(r, name) ==
    /\ lastCall' = [op |-> "isBoneMapped", by |-> r, name |-> name,
                    result |-> isBoneMapped(BoneMappingOf(r), name)]
    /\ QueryFrame

GetMappedBones(r) ==
    /\ lastCall' = [op |-> "getMappedBones", by |-> r, written |-> FALSE,
                    result |-> getMappedBones(BoneMappingOf(r))]
    /\ QueryFrame

CalculateScaleFactor(r, getSourceBoneLength, getTargetBoneLength) ==
    /\ lastCall' = [op |-> "calculateScaleFactor", by |-> r,
                    source |-> getSourceBoneLength, target |-> getTargetBoneLength,
                    result |-> calculateScaleFactor(configs[retargeters[r].config],
                                  getSourceBoneLength, getTargetBoneLength)]
    /\ QueryFrame

\* what a caller writes into a table it holds: every key, and a new one
Overwritten(table) == [k \in DOMAIN table \cup {"written"} |-> "overwritten"]

\* The caller writes to the Map it got from getMappedBones, ...
MutateMapView ==
    /\ lastCall.op = "getMappedBones"
    /\ ~lastCall.written
    /\ lastCall' = [lastCall EXCEPT !.written = TRUE, !.result = Overwritten(@)]
    /\ QueryFrame

\* ... to a table it holds (the override it passed to a factory, or the
\* boneMapping of the config it passed to the constructor), ...
MutateCallerMap(a) ==
    /\ a \in callerMaps
    /\ "written" \notin DOMAIN maps[a]
    /\ maps' = [maps EXCEPT ![a] = Overwritten(@)]
    /\ UNCHANGED vpdVars
    /\ UNCHANGED bcVars
    /\ UNCHANGED uiVars
    /\ UNCHANGED <<configs, retargeters, docs, groups, chans, tracks, inputDoc,
                   inputSnapshot, returned, returnedBy, returnedAt, mutated>>
    /\ UNCHANGED fxVars

\* ... or puts another table into the config it passed to the constructor.
ReplaceConfigMapping(c) ==
    /\ c \in callerConfigs
    /\ configs[c].boneMapping \in callerMaps
    /\ "written" \notin DOMAIN maps[configs[c].boneMapping]
    /\ maps' = Append(maps, Overwritten(<<>>))
    /\ configs' = [configs EXCEPT ![c].boneMapping = Len(maps) + 1]
    /\ UNCHANGED vpdVars
    /\ UNCHANGED bcVars
    /\ UNCHANGED uiVars
    /\ UNCHANGED <<retargeters, docs, groups, chans, tracks, inputDoc,
                   inputSnapshot, returned, returnedBy, returnedAt, mutated>>
    /\ UNCHANGED fxVars

(***************************************************************************)
(* BoneController (part_002): a pose applied to the bones of the live      *)
(* skeleton.  Bone names are sequences of UTF-16 code units.               *)
(***************************************************************************)
MaxPose == 2        \* records in a pose given to applyVpdPose
MaxApplies == 1     \* calls of applyVpdPose on a controller

\* "D"
LatinD == <<68>>

\* "IK"
LatinIK == <<73, 75>>

\* the full-width letters of "IK" (U+FF29, U+FF2B)
FullWidthIK == <<65321, 65323>>

\* String.prototype.includes
Includes(s, t) == \E i \in 1..(Len(s) - Len(t) + 1) : SubSeq(s, i, i + Len(t) - 1) = t

\* String.prototype.endsWith
EndsWith(s, t) == Len(s) >= Len(t) /\ SubSeq(s, Len(s) - Len(t) + 1, Len(s)) = t

\* Quaternion.Identity()
Identity == Quaternion(Zero, Zero, Zero, One)

\* this._modelMesh.skeleton || metadata.skeleton before the skeleton is loaded
NoSkeleton == [loaded |-> FALSE, bones |-> <<>>]

\* no pose applied yet
NoPose == [op |-> "none"]

\* _storeBoneTransforms: the transforms of the skeleton's bones by name,
\* once, and only when there is a skeleton with bones.  A bone of the model
\* has no parent offset: its absolute position is its position.
storeBoneTransforms(mesh, captured, originals) ==
    IF captured \/ ~mesh.loaded \/ Len(mesh.bones) = 0
    THEN [transformsCaptured |-> captured, originalTransforms |-> originals]
    ELSE [transformsCaptured |-> TRUE,
          originalTransforms |->
            [n \in {mesh.bones[b].name : b \in 1..Len(mesh.bones)} |->
                LET last == CHOOSE b \in 1..Len(mesh.bones) :
                                /\ mesh.bones[b].name = n
                                /\ \A c \in (b + 1)..Len(mesh.bones) : mesh.bones[c].name # n
                IN  [position |-> mesh.bones[last].position,
                     rotation |-> mesh.bones[last].rotation]]]

\* _ensureBonesInitialized
ensureBonesInitialized(mesh, initialized, captured, originals) ==
    IF initialized
    THEN [transformsCaptured |-> captured, originalTransforms |-> originals]
    ELSE storeBoneTransforms(mesh, captured, originals)

\* skeletonBones.find(b => b.name === name): the first bone of that name
\* (its index), 0 for undefined
Find(skeletonBones, name) ==
    IF \E b \in 1..Len(skeletonBones) : skeletonBones[b].name = name
    THEN CHOOSE b \in 1..Len(skeletonBones) :
            /\ skeletonBones[b].name = name
            /\ \A c \in 1..(b - 1) : skeletonBones[c].name # name
    ELSE 0

\* (the suffixed name tried before the name itself)
FindSkeletonBoneSuffixFirst(skeletonBones, name) ==
    LET direct == Find(skeletonBones, name)
        withD == Find(skeletonBones, name \o LatinD)
        withoutD == IF EndsWith(name, LatinD)
                    THEN Find(skeletonBones, SubSeq(name, 1, Len(name) - 1))
                    ELSE 0
    IN  IF withD # 0 THEN withD ELSE IF direct # 0 THEN direct ELSE withoutD

\* the three lookups of one turn of the loop: the name itself, then the
\* name + "D", then, for a name that ends with "D", the name without it
FindSkeletonBone(skeletonBones, name) ==
    LET direct == Find(skeletonBones, name)
        withD == Find(skeletonBones, name \o LatinD)
        withoutD == IF EndsWith(name, LatinD)
                    THEN Find(skeletonBones, SubSeq(name, 1, Len(name) - 1))
                    ELSE 0
    IN  IF direct # 0 THEN direct ELSE IF withD # 0 THEN withD ELSE withoutD

\* (only the Latin letters looked for)
IsIKBoneLatinOnly(boneName) == Includes(boneName, LatinIK)

\* boneName.includes("IK") || boneName.includes(full-width "IK")
IsIKBone(boneName) == Includes(boneName, LatinIK) \/ Includes(boneName, FullWidthIK)

\* one turn of the loop: a record without a bone is skipped; the bone found
\* gets a clone of the record's position if the record names an IK bone,
\* and a clone of the record's rotation
ApplyRecord(skeletonBones, vpdBone) ==
    LET skeletonBone == FindSkeletonBone(skeletonBones, vpdBone.name)
    IN  IF skeletonBone = 0
        THEN skeletonBones
        ELSE [skeletonBones EXCEPT ![skeletonBone] =
                [name |-> @.name,
                 position |-> IF IsIKBone(vpdBone.name) THEN vpdBone.position ELSE @.position,
                 rotation |-> vpdBone.rotation]]

\* for (const vpdBone of vpdBones): the first n records, in order
RECURSIVE ApplyRecords(_, _, _)
ApplyRecords(skeletonBones, vpdBones, n) ==
    IF n = 0
    THEN skeletonBones
    ELSE ApplyRecord(ApplyRecords(skeletonBones, vpdBones, n - 1), vpdBones[n])

\* applyVpdPose(vpdBones): captures the original transforms if this is the
\* first use of the bones, returns (with a warning) when there is no
\* skeleton, else applies the records in order
ApplyVpdPose(vpdBones) ==
    LET stored == ensureBonesInitialized(skeleton, bonesInitialized,
                                         transformsCaptured, originalTransforms)
    IN  /\ applies < MaxApplies
        /\ applies' = applies + 1
        /\ bonesInitialized' = TRUE
        /\ transformsCaptured' = stored.transformsCaptured
        /\ originalTransforms' = stored.originalTransforms
        /\ skeleton' = IF skeleton.loaded
                       THEN [skeleton EXCEPT
                                !.bones = ApplyRecords(@, vpdBones, Len(vpdBones))]
                       ELSE skeleton
        /\ poseCall' = [op |-> "applyVpdPose", vpdBones |-> vpdBones,
                        before |-> skeleton, outcome |-> "returned"]
        /\ UNCHANGED <<selectedBoneName, timerVars>>
        /\ UNCHANGED vpdVars
        /\ UNCHANGED rtVars
        /\ UNCHANGED uiVars
        /\ UNCHANGED fxVars

(***************************************************************************)
(* The skeletons and the poses the controller is given.                    *)
(***************************************************************************)
\* "hidari ashi" (left leg, U+5DE6 U+8DB3), alone and with suffixes
Ashi == <<24038, 36275>>

AshiD == Ashi \o LatinD

AshiDD == Ashi \o LatinD \o LatinD

AshiIK == Ashi \o LatinIK

AshiFullWidthIK == Ashi \o FullWidthIK

\* a Latin I followed by a full-width K: no IK in either form
AshiMixedIK == Ashi \o <<73, 65323>>

\* the bone names of the skeletons a mesh may hold
Skeletons ==
    { <<>>, <<Ashi>>, <<AshiD>>, <<Ashi, AshiD>>, <<AshiDD, Ashi>>,
      <<AshiIK, AshiFullWidthIK, AshiMixedIK>> }

\* the names a pose record may carry ("D" alone has no bone)
RecordNames == {Ashi, AshiD, AshiIK, AshiFullWidthIK, AshiMixedIK, LatinD}

\* a whole number as a Number
Whole(n) == Finite(FALSE, n, 0, 2)

\* the bones of a loaded skeleton at rest: the b-th bone sits at (0, b, 0)
BonesOf(names) ==
    [b \in 1..Len(names) |->
        [name |-> names[b], position |-> Vector3(Zero, Whole(b), Zero),
         rotation |-> Identity]]

\* a pose: its i-th record moves to (i, 0, 0) and turns by (0, i, 0, 1)
PoseOf(names) ==
    [i \in 1..Len(names) |->
        [name |-> names[i], position |-> Vector3(Whole(i), Zero, Zero),
         rotation |-> Quaternion(Zero, Whole(i), Zero, One)]]

Poses == {PoseOf(names) : names \in UNION {[1..n -> RecordNames] : n \in 0..MaxPose}}

\* babylon-mmd finishes loading the skeleton of the mesh
SkeletonLoads(names) ==
    /\ ~skeleton.loaded
    /\ skeleton' = [loaded |-> TRUE, bones |-> BonesOf(names)]
    /\ UNCHANGED <<bonesInitialized, transformsCaptured, originalTransforms,
                   applies, poseCall, selectedBoneName, timerVars>>
    /\ UNCHANGED vpdVars
    /\ UNCHANGED rtVars
    /\ UNCHANGED uiVars
    /\ UNCHANGED fxVars

(***************************************************************************)
(* The timers of the constructor and the skeleton-ready callbacks          *)
(* (part_002 17-64), and selectBone (116-134).                             *)
(***************************************************************************)
MaxCallbacks == 2   \* callbacks given to onSkeletonReady

Callbacks == 1..MaxCallbacks

\* for (const callback of callbacks) callback(): each one is invoked once
\* more for each time it is in the list
InvokeAll(callbacks) ==
    [c \in Callbacks |->
        invoked[c] + Cardinality({k \in 1..Len(callbacks) : callbacks[k] = c})]

\* the body of onSkeletonReady: invoked at once when the bones are
\* initialised, else kept for the poll
Register(callback) ==
    IF bonesInitialized
    THEN [invoked |-> [invoked EXCEPT ![callback] = @ + 1],
          callbacks |-> skeletonReadyCallbacks]
    ELSE [invoked |-> invoked,
          callbacks |-> Append(skeletonReadyCallbacks, callback)]

\* onSkeletonReady(callback), with a callback not given before
OnSkeletonReady(callback) ==
    /\ callback \notin registered
    /\ registered' = registered \cup {callback}
    /\ invoked' = Register(callback).invoked
    /\ skeletonReadyCallbacks' = Register(callback).callbacks
    /\ UNCHANGED <<skeleton, bonesInitialized, transformsCaptured, originalTransforms,
                   applies, poseCall, selectedBoneName,
                   checkSkeleton, polled, retryTimer, cutoffTimer>>
    /\ UNCHANGED vpdVars
    /\ UNCHANGED rtVars
    /\ UNCHANGED uiVars
    /\ UNCHANGED fxVars

\* one tick of the interval of _waitForSkeleton: when there is a skeleton
\* and the bones are not initialised, the interval is cleared, the
\* transforms are stored, and the waiting callbacks are invoked and dropped
PollTick ==
    /\ checkSkeleton = "running"
    /\ polled' = TRUE
    /\ IF skeleton.loaded /\ ~bonesInitialized
       THEN LET stored == storeBoneTransforms(skeleton, transformsCaptured,
                                              originalTransforms)
            IN  /\ checkSkeleton' = "cleared"
                /\ transformsCaptured' = stored.transformsCaptured
                /\ originalTransforms' = stored.originalTransforms
                /\ bonesInitialized' = TRUE
                /\ invoked' = InvokeAll(skeletonReadyCallbacks)
                /\ skeletonReadyCallbacks' = <<>>
       ELSE UNCHANGED <<checkSkeleton, transformsCaptured, originalTransforms,
                        bonesInitialized, invoked, skeletonReadyCallbacks>>
    /\ UNCHANGED <<skeleton, applies, poseCall, selectedBoneName, retryTimer,
                   cutoffTimer, registered>>
    /\ UNCHANGED vpdVars
    /\ UNCHANGED rtVars
    /\ UNCHANGED uiVars
    /\ UNCHANGED fxVars

\* the 100 ms timeout of the constructor; the interval, set earlier and
\* due at 50 ms, has ticked before it
RetryTimeout ==
    /\ retryTimer = "pending"
    /\ polled
    /\ retryTimer' = "fired"
    /\ LET stored == IF ~transformsCaptured /\ bonesInitialized
                     THEN storeBoneTransforms(skeleton, transformsCaptured,
                                              originalTransforms)
                     ELSE [transformsCaptured |-> transformsCaptured,
                           originalTransforms |-> originalTransforms]
       IN  /\ transformsCaptured' = stored.transformsCaptured
           /\ originalTransforms' = stored.originalTransforms
    /\ UNCHANGED <<skeleton, bonesInitialized, applies, poseCall, selectedBoneName,
                   skeletonReadyCallbacks, checkSkeleton, polled, cutoffTimer,
                   registered, invoked>>
    /\ UNCHANGED vpdVars
    /\ UNCHANGED rtVars
    /\ UNCHANGED uiVars
    /\ UNCHANGED fxVars

\* the 5 s timeout of _waitForSkeleton: clearInterval(checkSkeleton); the
\* 100 ms timeout is due before it
CutoffTimeout ==
    /\ cutoffTimer = "pending"
    /\ retryTimer = "fired"
    /\ cutoffTimer' = "fired"
    /\ checkSkeleton' = "cleared"
    /\ UNCHANGED <<skeleton, bonesInitialized, transformsCaptured, originalTransforms,
                   applies, poseCall, selectedBoneName, skeletonReadyCallbacks,
                   polled, retryTimer, registered, invoked>>
    /\ UNCHANGED vpdVars
    /\ UNCHANGED rtVars
    /\ UNCHANGED uiVars
    /\ UNCHANGED fxVars

\* selectBone(boneName): initialises the bones on its own, then selects the
\* bone if the skeleton has one of that name
SelectBone(boneName) ==
    LET stored == ensureBonesInitialized(skeleton, bonesInitialized,
                                         transformsCaptured, originalTransforms)
    IN  /\ bonesInitialized' = TRUE
        /\ transformsCaptured' = stored.transformsCaptured
        /\ originalTransforms' = stored.originalTransforms
        /\ selectedBoneName' =
                IF skeleton.loaded /\ Find(skeleton.bones, boneName) # 0
                THEN boneName ELSE selectedBoneName
        /\ UNCHANGED <<skeleton, applies, poseCall, timerVars>>
        /\ UNCHANGED vpdVars
        /\ UNCHANGED rtVars
        /\ UNCHANGED uiVars
        /\ UNCHANGED fxVars

\* bones.find(b => b.name === this._selectedBoneName) of rotateBone and
\* moveBone: 0 when no bone is selected (null and "" are both falsy), when
\* there is no skeleton, and when the skeleton has no bone of that name
SelectedBone ==
    IF selectedBoneName = <<>> \/ ~skeleton.loaded THEN 0
    ELSE Find(skeleton.bones, selectedBoneName)

\* Vector3.Right(), Vector3.Up(), Vector3.Forward()
Right == Vector3(One, Zero, Zero)

Up == Vector3(Zero, One, Zero)

Forward == Vector3(Zero, Zero, One)

\* Quaternion.RotationAxis(axis, angle), (axis sin(angle / 2), cos(angle / 2)):
\* the identity for the angle 0; for another angle the sines and cosines
\* are not computed, the quaternion is kept as the turn it stands for
RotationAxis(axis, angle) ==
    IF angle = Zero THEN Identity ELSE [axis |-> axis, angle |-> angle]

\* p.multiply(q): p for the identity as q and q for the identity as p; the
\* product of two turns is kept as the product it stands for
Multiply(p, q) ==
    IF q = Identity THEN p
    ELSE IF p = Identity THEN q
    ELSE [left |-> p, right |-> q]

bcFrame == <<vpdVars, rtVars, fxVars, uiVars>>

\* rotateBone(rotationX, rotationY, rotationZ): the selected bone gets the
\* rotation qx * qy * qz; nothing is initialised or stored
RotateBone(rotationX, rotationY, rotationZ) ==
    LET qx == RotationAxis(Right, rotationX)
        qy == RotationAxis(Up, rotationY)
        qz == RotationAxis(Forward, rotationZ)
        combined == Multiply(Multiply(qx, qy), qz) IN
    /\ skeleton' = IF SelectedBone # 0
                   THEN [skeleton EXCEPT !.bones[SelectedBone].rotation = combined]
                   ELSE skeleton
    /\ poseCall' = [op |-> "rotateBone"]
    /\ UNCHANGED <<bonesInitialized, transformsCaptured, originalTransforms,
                   applies, selectedBoneName, timerVars>>
    /\ UNCHANGED bcFrame

\* moveBone(x, y, z): the selected bone gets the position (x, y, z)
MoveBone(x, y, z) ==
    /\ skeleton' = IF SelectedBone # 0
                   THEN [skeleton EXCEPT !.bones[SelectedBone].position = Vector3(x, y, z)]
                   ELSE skeleton
    /\ poseCall' = [op |-> "moveBone"]
    /\ UNCHANGED <<bonesInitialized, transformsCaptured, originalTransforms,
                   applies, selectedBoneName, timerVars>>
    /\ UNCHANGED bcFrame

\* a bone with the transform stored for its name, if one is stored
Restored(bone) ==
    IF bone.name \in DOMAIN originalTransforms
    THEN [name |-> bone.name,
          position |-> originalTransforms[bone.name].position,
          rotation |-> originalTransforms[bone.name].rotation]
    ELSE bone

\* resetBone(boneName): the first bone of the name given, or of the selected
\* name when none is given (<<>> stands for undefined and for ""), gets the
\* transform stored for that name
ResetBone(boneName) ==
    LET targetBoneName == IF boneName # <<>> THEN boneName ELSE selectedBoneName
        bone == IF targetBoneName = <<>> \/ ~skeleton.loaded THEN 0
                ELSE Find(skeleton.bones, targetBoneName) IN
    /\ skeleton' = IF bone # 0
                   THEN [skeleton EXCEPT !.bones[bone] = Restored(@)]
                   ELSE skeleton
    /\ poseCall' = [op |-> "resetBone"]
    /\ UNCHANGED <<bonesInitialized, transformsCaptured, originalTransforms,
                   applies, selectedBoneName, timerVars>>
    /\ UNCHANGED bcFrame

\* resetAllBones(): every bone whose name has a stored transform gets it
ResetAllBones ==
    /\ skeleton' = [skeleton EXCEPT
                        !.bones = [b \in 1..Len(@) |-> Restored(@[b])]]
    /\ poseCall' = [op |-> "resetAllBones"]
    /\ UNCHANGED <<bonesInitialized, transformsCaptured, originalTransforms,
                   applies, selectedBoneName, timerVars>>
    /\ UNCHANGED bcFrame

\* a controller that has done nothing on a mesh without skeleton
BcIdle ==
    /\ skeleton = NoSkeleton
    /\ bonesInitialized = FALSE
    /\ transformsCaptured = FALSE
    /\ originalTransforms = <<>>
    /\ applies = 0
    /\ poseCall = NoPose
    /\ selectedBoneName = <<>>
    /\ skeletonReadyCallbacks = <<>>
    /\ checkSkeleton = "running"
    /\ polled = FALSE
    /\ retryTimer = "pending"
    /\ cutoffTimer = "pending"
    /\ registered = {}
    /\ invoked = [c \in Callbacks |-> 0]

(***************************************************************************)
(* AnimationBlender                                                        *)
(***************************************************************************)
MaxBlends == 1

LayerNames == {"a", "b", "c"}

\* the animation data the caller passes with each name: an address
DataOf == [a |-> 1, b |-> 2, c |-> 3]

WZero == Divide(0, 1)
WHalf == Divide(1, 2)
WOne == Divide(1, 1)
WTwo == Divide(2, 1)
WNaN == Divide(0, 0)

\* null, as JSON writes a number that is not finite
Null == [nan |-> FALSE, inf |-> FALSE, neg |-> FALSE, num |-> 0, den |-> 0]

IsNull(x) == ~x.nan /\ ~x.inf /\ x.den = 0

\* the weights the caller passes: below 0, within [0, 1], infinite, and NaN
Weights == {Divide(-1, 1), WHalf, Divide(1, 0), WNaN}

Signed(x) == IF x.neg THEN 0 - x.num ELSE x.num

\* null as a number
ToNumber(x) == IF IsNull(x) THEN WZero ELSE x

\* a + b on numbers: NaN for a NaN and for the two infinities added, an
\* infinity for an infinity and anything else
Sum(a, b) ==
    IF a.nan \/ b.nan THEN WNaN
    ELSE IF a.inf /\ b.inf THEN (IF a.neg = b.neg THEN a ELSE WNaN)
    ELSE IF a.inf THEN a
    ELSE IF b.inf THEN b
    ELSE Divide(Signed(a) * b.den + Signed(b) * a.den, a.den * b.den)

\* a * b on numbers: NaN for a NaN and for an infinity times zero, an
\* infinity of the sign of the product for an infinity and anything else
Product(a, b) ==
    IF a.nan \/ b.nan THEN WNaN
    ELSE IF a.inf \/ b.inf
    THEN IF (~a.inf /\ a.num = 0) \/ (~b.inf /\ b.num = 0) THEN WNaN
         ELSE Divide(IF a.neg # b.neg THEN -1 ELSE 1, 0)
    ELSE Divide(Signed(a) * Signed(b), a.den * b.den)

\* x + y and x * y, with null as 0
Plus(x, y) == Sum(ToNumber(x), ToNumber(y))

Times(x, y) == Product(ToNumber(x), ToNumber(y))

\* x / y on weights, which are NaN or lie in [0, 1] once clamped: 0 / 0 is
\* NaN
Ratio(x, y) == Divide(x.num * y.den, x.den * y.num)

\* x > y, false when either is NaN
Greater(x, y) ==
    /\ ~x.nan
    /\ ~y.nan
    /\ IF x.inf THEN ~x.neg /\ ~(y.inf /\ ~y.neg)
       ELSE IF y.inf THEN y.neg
       ELSE Signed(x) * y.den > Signed(y) * x.den

\* Math.min(1, weight) alone
ClampToOne(weight) ==
    IF weight.nan THEN WNaN
    ELSE IF Greater(weight, WOne) THEN WOne
    ELSE weight

\* Math.max(0, Math.min(1, weight))
Clamp(weight) ==
    IF weight.nan THEN WNaN
    ELSE IF Greater(WZero, weight) THEN WZero
    ELSE IF Greater(weight, WOne) THEN WOne
    ELSE weight

\* this._model.createRuntimeAnimation(animationData)
createRuntimeAnimation(animationData) == [kind |-> "data", animationData |-> animationData]

NoAnimation == [kind |-> "none"]

NoLayerCall == [op |-> "none", found |-> FALSE]

\* find(l => l.name === name): the index of the first layer of that name, or 0
FindLayer(layers, name) ==
    IF \E i \in 1..Len(layers) : layers[i].name = name
    THEN CHOOSE i \in 1..Len(layers) :
            /\ layers[i].name = name
            /\ \A j \in 1..(i - 1) : layers[j].name # name
    ELSE 0

\* splice(index, 1)
SpliceLayer(layers, index) ==
    SubSeq(layers, 1, index - 1) \o SubSeq(layers, index + 1, Len(layers))

\* reduce((sum, l) => sum + l.weight, 0)
RECURSIVE TotalWeight(_, _)
TotalWeight(layers, n) ==
    IF n = 0 THEN WZero ELSE Plus(TotalWeight(layers, n - 1), layers[n].weight)

\* the active layers, each with its share of their total weight
NormalizedLayers(layers) ==
    LET activeLayers == SelectSeq(layers, LAMBDA l : l.isActive)
        totalWeight == TotalWeight(activeLayers, Len(activeLayers)) IN
    [i \in 1..Len(activeLayers) |->
        [name |-> activeLayers[i].name,
         animationData |-> activeLayers[i].animationData,
         weight |-> activeLayers[i].weight,
         isActive |-> activeLayers[i].isActive,
         runtimeHandle |-> activeLayers[i].runtimeHandle,
         normalizedWeight |-> Ratio(activeLayers[i].weight, totalWeight)]]

\* the reduce keeping the later of two layers of equal share
RECURSIVE LatestDominantLayer(_, _)
LatestDominantLayer(layers, n) ==
    IF n = 1 THEN layers[1]
    ELSE LET prev == LatestDominantLayer(layers, n - 1) IN
         IF ~Greater(prev.normalizedWeight, layers[n].normalizedWeight)
         THEN layers[n] ELSE prev

\* reduce((prev, current) => current.normalizedWeight > prev.normalizedWeight
\*                           ? current : prev) over the first n layers
RECURSIVE DominantLayer(_, _)
DominantLayer(layers, n) ==
    IF n = 1 THEN layers[1]
    ELSE LET prev == DominantLayer(layers, n - 1) IN
         IF Greater(layers[n].normalizedWeight, prev.normalizedWeight)
         THEN layers[n] ELSE prev

applyOverrideBlendingLatest(layers) ==
    createRuntimeAnimation(LatestDominantLayer(layers, Len(layers)).animationData)

\* _applyOverrideBlending: the animation made of the dominant layer's data
applyOverrideBlending(layers) ==
    createRuntimeAnimation(DominantLayer(layers, Len(layers)).animationData)

\* JSON.parse(JSON.stringify(boneData)): a copy, null for NaN
CloneBoneData(boneData) ==
    [f \in DOMAIN boneData |->
        [i \in 1..Len(boneData[f]) |->
            IF boneData[f][i].nan \/ boneData[f][i].inf THEN Null ELSE boneData[f][i]]]

\* layerData.positions[idx] || 0: undefined, null, NaN and zero give 0, an
\* infinity is kept
OrZero(track, idx) ==
    IF idx > Len(track) THEN WZero
    ELSE IF track[idx].nan \/ IsNull(track[idx]) THEN WZero
    ELSE IF ~track[idx].inf /\ track[idx].num = 0 THEN WZero
    ELSE track[idx]

\* base.map((v, idx) => v + (layer[idx] || 0) * weight)
BlendTrack(base, layer, weight) ==
    [idx \in 1..Len(base) |-> Plus(base[idx], Times(OrZero(layer, idx), weight))]

\* the tracks lines 206-218 blend
BlendedTracks == {"positions", "rotations"}

\* the base bone data after the positions and the rotations of a layer's
\* bone data are added to it; every other field is left as it is
BlendBoneData(baseData, layerData, weight) ==
    [f \in DOMAIN baseData |->
        IF f \in BlendedTracks /\ f \in DOMAIN layerData
        THEN BlendTrack(baseData[f], layerData[f], weight)
        ELSE baseData[f]]

\* A skeleton is a plain object: its own properties in the order for...in
\* visits them, which for names that are not array indices is the order
\* they were written in.  The place of an own property, or 0.
OwnIndex(properties, boneName) ==
    IF \E i \in 1..Len(properties) : properties[i].boneName = boneName
    THEN CHOOSE i \in 1..Len(properties) : properties[i].boneName = boneName
    ELSE 0

\* One bone of a layer blended in.  The blended skeleton holds for each bone
\* either an object of its own (alias 0) or the address of a bone-data object
\* of a layer, which it then shares with that layer.  A name the blended
\* skeleton does not hold but inherits from Object.prototype reads as a
\* function (for __proto__, an object) without positions or rotations: it
\* is truthy, so the bone is not added, and nothing is blended.
BlendOwn(st, own, boneName, address, weight) ==
    IF own = 0 /\ boneName \notin ObjectPrototypeKeys
    THEN [st EXCEPT !.skeleton =
            Append(@, [boneName |-> boneName, alias |-> address, data |-> <<>>])]
    ELSE IF own = 0 THEN st
    ELSE IF st.skeleton[own].alias = 0
    THEN [st EXCEPT !.skeleton[own].data =
                        BlendBoneData(@, st.boneDatas[address], weight)]
    ELSE [st EXCEPT !.boneDatas[st.skeleton[own].alias] =
                        BlendBoneData(@, st.boneDatas[address], weight)]

\* the body of the loop for one bone of the layer
BlendBone(st, boneName, address, weight) ==
    BlendOwn(st, OwnIndex(st.skeleton, boneName), boneName, address, weight)

\* for (const boneName in layerAnimation.skeleton): the first n bones of the
\* layer, in the order of the layer's object
RECURSIVE BlendBones(_, _, _, _)
BlendBones(st, skeletonOf, n, weight) ==
    IF n = 0 THEN st
    ELSE BlendBone(BlendBones(st, skeletonOf, n - 1, weight),
                   skeletonOf[n].boneName, skeletonOf[n].boneData, weight)

\* for (let i = 1; i < layers.length; i++), from layer i on
RECURSIVE BlendLayers(_, _, _)
BlendLayers(st, layers, i) ==
    IF i > Len(layers) THEN st
    ELSE LET skeletonOf == animationDatas[layers[i].animationData].skeleton IN
         BlendLayers(BlendBones(st, skeletonOf, Len(skeletonOf),
                                layers[i].normalizedWeight),
                     layers, i + 1)

\* _applyAdditiveBlending: the bone-data heap after the blend, the skeleton of
\* the blended animation as createRuntimeAnimation reads it, and the runtime
\* animation made of it, known by the layers blended
applyAdditiveBlending(layers, heap) ==
    LET baseSkeleton == animationDatas[layers[1].animationData].skeleton
        start == [boneDatas |-> heap,
                  skeleton |-> [b \in 1..Len(baseSkeleton) |->
                                  [boneName |-> baseSkeleton[b].boneName,
                                   alias |-> 0,
                                   data |-> CloneBoneData(heap[baseSkeleton[b].boneData])]]]
        end == BlendLayers(start, layers, 2) IN
    [boneDatas |-> end.boneDatas,
     skeleton |-> [b \in 1..Len(end.skeleton) |->
                     [boneName |-> end.skeleton[b].boneName,
                      boneData |-> IF end.skeleton[b].alias = 0 THEN end.skeleton[b].data
                                   ELSE end.boneDatas[end.skeleton[b].alias]]],
     modelAnimation |->
        [kind |-> "blended",
         layers |-> [i \in 1..Len(layers) |-> layers[i].name]]]

\* _applyBlendedAnimation: what it leaves of the bone-data heap and of the
\* model's animation, and whether it blended additively
applyBlendedAnimation(layers, mode, heap, current) ==
    LET asIs == [boneDatas |-> heap, modelAnimation |-> current, additive |-> FALSE]
        normalizedLayers == NormalizedLayers(layers) IN
    IF Len(layers) = 0 THEN asIs
    ELSE IF Len(layers) = 1
    THEN IF layers[1].isActive
         THEN [asIs EXCEPT !.modelAnimation = createRuntimeAnimation(layers[1].animationData)]
         ELSE asIs
    ELSE IF Len(normalizedLayers) = 0 THEN asIs
    ELSE IF mode = "additive"
    THEN LET blended == applyAdditiveBlending(normalizedLayers, heap) IN
         [boneDatas |-> blended.boneDatas,
          modelAnimation |-> blended.modelAnimation,
          additive |-> TRUE]
    ELSE [asIs EXCEPT !.modelAnimation = applyOverrideBlending(normalizedLayers)]

\* the variables of the other components
abFrame == <<vpdVars, rtVars, fxVars, bcVars, vcVars, ccVars>>

\* whether _applyBlendedAnimation reaches _applyAdditiveBlending
BlendsAdditively(layers, mode) ==
    /\ Len(layers) >= 2
    /\ \E i \in 1..Len(layers) : layers[i].isActive
    /\ mode = "additive"

\* a call of _applyBlendedAnimation on the layers and the mode given
Reapply(layers, mode) ==
    LET applied == applyBlendedAnimation(layers, mode, boneDatas, modelAnimation) IN
    /\ BlendsAdditively(layers, mode) => blends < MaxBlends
    /\ boneDatas' = applied.boneDatas
    /\ modelAnimation' = applied.modelAnimation
    /\ blends' = IF applied.additive THEN blends + 1 ELSE blends

\* the deep value of a document of the caller as it is now
DeepValue(animationData) ==
    [skeleton |->
        [b \in 1..Len(animationDatas[animationData].skeleton) |->
            [boneName |-> animationDatas[animationData].skeleton[b].boneName,
             boneData |-> boneDatas[animationDatas[animationData].skeleton[b].boneData]]]]

AddAnimationLayer(name, animationData, weight) ==
    LET existingLayer == FindLayer(animationLayers, name)
        runtimeHandle == createRuntimeAnimation(animationData) IN
    /\ IF existingLayer # 0
       THEN /\ animationLayers' =
                    [animationLayers EXCEPT ![existingLayer].weight = Clamp(weight)]
            /\ UNCHANGED <<modelAnimation, givenDatas>>
       ELSE /\ animationLayers' =
                    Append(animationLayers,
                           [name |-> name,
                            animationData |-> animationData,
                            weight |-> Clamp(weight),
                            isActive |-> TRUE,
                            runtimeHandle |-> runtimeHandle])
            /\ modelAnimation' = runtimeHandle
            /\ givenDatas' = Append(givenDatas, DeepValue(animationData))
    /\ layerCall' = [op |-> "addAnimationLayer", found |-> existingLayer # 0]
    /\ UNCHANGED <<blendMode, animationDatas, boneDatas, blends>>
    /\ UNCHANGED abFrame

RemoveAnimationLayer(name) ==
    LET index == FindLayer(animationLayers, name) IN
    /\ IF index # 0
       THEN /\ animationLayers' = SpliceLayer(animationLayers, index)
            /\ givenDatas' = SpliceLayer(givenDatas, index)
            /\ Reapply(SpliceLayer(animationLayers, index), blendMode)
       ELSE UNCHANGED <<animationLayers, givenDatas, boneDatas, modelAnimation, blends>>
    /\ layerCall' = [op |-> "removeAnimationLayer", found |-> index # 0]
    /\ UNCHANGED <<blendMode, animationDatas>>
    /\ UNCHANGED abFrame

SetLayerWeight(name, weight) ==
    LET layer == FindLayer(animationLayers, name)
        layers == [animationLayers EXCEPT ![layer].weight = Clamp(weight)] IN
    /\ IF layer # 0
       THEN /\ animationLayers' = layers
            /\ Reapply(layers, blendMode)
       ELSE UNCHANGED <<animationLayers, boneDatas, modelAnimation, blends>>
    /\ layerCall' = [op |-> "setLayerWeight", found |-> layer # 0]
    /\ UNCHANGED <<blendMode, animationDatas, givenDatas>>
    /\ UNCHANGED abFrame

SetLayerActive(name, isActive) ==
    LET layer == FindLayer(animationLayers, name)
        layers == [animationLayers EXCEPT ![layer].isActive = isActive] IN
    /\ IF layer # 0
       THEN /\ animationLayers' = layers
            /\ Reapply(layers, blendMode)
       ELSE UNCHANGED <<animationLayers, boneDatas, modelAnimation, blends>>
    /\ layerCall' = [op |-> "setLayerActive", found |-> layer # 0]
    /\ UNCHANGED <<blendMode, animationDatas, givenDatas>>
    /\ UNCHANGED abFrame

SetBlendMode(mode) ==
    /\ blendMode' = mode
    /\ Reapply(animationLayers, mode)
    /\ layerCall' = [op |-> "setBlendMode", found |-> TRUE]
    /\ UNCHANGED <<animationLayers, animationDatas, givenDatas>>
    /\ UNCHANGED abFrame

ClearLayers ==
    /\ animationLayers' = <<>>
    /\ givenDatas' = <<>>
    /\ layerCall' = [op |-> "clearLayers", found |-> TRUE]
    /\ UNCHANGED <<blendMode, animationDatas, boneDatas, modelAnimation, blends>>
    /\ UNCHANGED abFrame

\* addAnimationLayer(name, animationData, weight) on the layers of a blender
\* and on the runtime animation of its model, for the blenders that the
\* controller of models keeps
LayersWith(layers, name, animationData, weight) ==
    LET existingLayer == FindLayer(layers, name) IN
    IF existingLayer # 0
    THEN [layers EXCEPT ![existingLayer].weight = Clamp(weight)]
    ELSE Append(layers,
                [name |-> name,
                 animationData |-> animationData,
                 weight |-> Clamp(weight),
                 isActive |-> TRUE,
                 runtimeHandle |-> createRuntimeAnimation(animationData)])

AnimationWith(layers, current, name, animationData) ==
    IF FindLayer(layers, name) # 0 THEN current
    ELSE createRuntimeAnimation(animationData)

\* a bone of a document: its name and the address of its bone data
Bone(boneName, boneData) == [boneName |-> boneName, boneData |-> boneData]

\* three documents that all animate the arm bone, with tracks of different
\* lengths
ArmAnimationDatas ==
    <<[skeleton |-> <<Bone("arm", 1)>>],
      [skeleton |-> <<Bone("arm", 2)>>],
      [skeleton |-> <<Bone("arm", 3)>>]>>

ArmBoneDatas ==
    <<[positions |-> <<WOne>>],
      [positions |-> <<WOne, WTwo>>, rotations |-> <<WOne>>],
      [positions |-> <<WHalf>>]>>

\* three documents of which the first has no arm bone and the other two
\* have one; the second has a bone named as a method every object inherits,
\* and the third has as its leg, written before its arm, the object that is
\* the arm of the second
LegAnimationDatas ==
    <<[skeleton |-> <<Bone("leg", 1)>>],
      [skeleton |-> <<Bone("arm", 2), Bone("toString", 4)>>],
      [skeleton |-> <<Bone("leg", 2), Bone("arm", 3)>>]>>

LegBoneDatas ==
    <<[positions |-> <<WOne>>, scales |-> <<WOne>>],
      [positions |-> <<WOne, WTwo>>, rotations |-> <<WOne>>, scales |-> <<WOne>>],
      [positions |-> <<WHalf, Divide(1, 0)>>],
      [rotations |-> <<WHalf>>]>>

\* a blender just constructed, and the documents its caller holds
AbInit(datas, bones) ==
    /\ animationLayers = <<>>
    /\ blendMode = "override"
    /\ animationDatas = datas
    /\ boneDatas = bones
    /\ modelAnimation = NoAnimation
    /\ blends = 0
    /\ layerCall = NoLayerCall
    /\ givenDatas = <<>>

\* no blender
AbIdle ==
    /\ animationLayers = <<>>
    /\ blendMode = "override"
    /\ animationDatas = <<>>
    /\ boneDatas = <<>>
    /\ modelAnimation = NoAnimation
    /\ blends = 0
    /\ layerCall = NoLayerCall
    /\ givenDatas = <<>>

(***************************************************************************)
(* VmdAnimationController: the models it tracks and their blenders         *)
(***************************************************************************)
MaxModels == 2

NoBlenderAsked == [modelIndex |-> -1, returned |-> "none"]

\* getAnimationBlender(modelIndex): "null" or the blender of the model at
\* that index (indices from 0)
getAnimationBlender(modelIndex) ==
    IF modelIndex < 0 \/ modelIndex >= Len(loadedModels) THEN "null"
    ELSE IF loadedModels[modelIndex + 1] \in modelBlenders THEN "blender"
    ELSE "null"

vcFrame == <<vpdVars, rtVars, fxVars, bcVars, abVars, ccVars>>

RegisterInitialModel ==
    /\ nextModel < MaxModels
    /\ nextModel' = nextModel + 1
    /\ loadedModels' = Append(loadedModels, nextModel + 1)
    /\ modelBlenders' = modelBlenders \cup {nextModel + 1}
    /\ UNCHANGED <<loading, blenderAsked>>
    /\ UNCHANGED motionVars
    /\ UNCHANGED vcFrame

\* loadModel and loadModelFromFile up to their await: the load is under way
StartLoad(by) ==
    /\ nextModel < MaxModels
    /\ nextModel' = nextModel + 1
    /\ loading' = loading \cup {[model |-> nextModel + 1, by |-> by]}
    /\ UNCHANGED <<loadedModels, modelBlenders, blenderAsked>>
    /\ UNCHANGED motionVars
    /\ UNCHANGED vcFrame

\* loadModel after its await: the model is tracked and given a blender
LoadModelResolves(load) ==
    /\ load \in loading
    /\ load.by = "loadModel"
    /\ loading' = loading \ {load}
    /\ loadedModels' = Append(loadedModels, load.model)
    /\ modelBlenders' = modelBlenders \cup {load.model}
    /\ UNCHANGED <<nextModel, blenderAsked>>
    /\ UNCHANGED motionVars
    /\ UNCHANGED vcFrame

\* loadModelFromFile after its await: the model is tracked
LoadModelFromFileResolves(load) ==
    /\ load \in loading
    /\ load.by = "loadModelFromFile"
    /\ loading' = loading \ {load}
    /\ loadedModels' = Append(loadedModels, load.model)
    /\ UNCHANGED <<modelBlenders, nextModel, blenderAsked>>
    /\ UNCHANGED motionVars
    /\ UNCHANGED vcFrame

\* the load fails: either method logs and throws again
LoadRejects(load) ==
    /\ load \in loading
    /\ loading' = loading \ {load}
    /\ UNCHANGED <<loadedModels, modelBlenders, nextModel, blenderAsked>>
    /\ UNCHANGED motionVars
    /\ UNCHANGED vcFrame

GetAnimationBlender(modelIndex) ==
    /\ blenderAsked' = [modelIndex |-> modelIndex,
                        returned |-> getAnimationBlender(modelIndex)]
    /\ UNCHANGED <<loadedModels, modelBlenders, loading, nextModel>>
    /\ UNCHANGED motionVars
    /\ UNCHANGED vcFrame

(***************************************************************************)
(* CameraController: the registered camera animations and the active one   *)
(***************************************************************************)
\* the names the caller uses: the empty string is a name as any other
CameraNames == {"", "dolly", "orbit"}

\* the handles the caller passes: "none" stands for null and undefined
CameraHandles == {"none", "h1", "h2"}

\* the weight the caller registers an animation with, and those it sets
\* afterwards
CameraWeights == {Divide(1, 0)}

NewCameraWeights == {WHalf, Divide(-1, 0)}

\* the names whose weight the caller sets, and those it switches on and off
WeightedNames == {"dolly"}

ToggledNames == {""}

\* null, as the active name
NoName == <<>>

NoHandle == "none"

NoCameraCall == [op |-> "none", name |-> "", returned |-> "none"]

\* the position of a key in the map, or 0
KeyIndex(animations, name) ==
    IF \E i \in 1..Len(animations) : animations[i].name = name
    THEN CHOOSE i \in 1..Len(animations) : animations[i].name = name
    ELSE 0

\* Map.set: a key already held keeps its place
MapSet(animations, entry) ==
    IF KeyIndex(animations, entry.name) # 0
    THEN [animations EXCEPT ![KeyIndex(animations, entry.name)] = entry]
    ELSE Append(animations, entry)

\* Map.delete
MapDelete(animations, name) ==
    SelectSeq(animations, LAMBDA e : e.name # name)

\* a name that is neither null nor the empty string
TruthyName(active) == active # NoName /\ active[1] # ""

\* _applyCameraAnimation(name): the runtime animation on the camera after it
applyCameraAnimation(animations, name, mode, current) ==
    IF KeyIndex(animations, name) = 0 THEN current
    ELSE IF mode = "override" THEN animations[KeyIndex(animations, name)].handle
    ELSE current

\* Array.from(keys()).filter(key => key !== name), without the filter
RemainingWithName(animations, name) ==
    [i \in 1..Len(animations) |-> animations[i].name]

\* Array.from(this._cameraAnimations.keys()).filter(key => key !== name)
Remaining(animations, name) ==
    SelectSeq([i \in 1..Len(animations) |-> animations[i].name],
              LAMBDA key : key # name)

ccFrame == <<vpdVars, rtVars, fxVars, bcVars, abVars, vcVars>>

AddCameraAnimation(animationHandle, name, weight) ==
    LET animations == MapSet(cameraAnimations,
                             [handle |-> animationHandle,
                              name |-> name,
                              weight |-> Clamp(weight),
                              isActive |-> TRUE]) IN
    /\ IF animationHandle = NoHandle
       THEN UNCHANGED <<cameraAnimations, activeCameraAnimation,
                        cameraRuntimeAnimation>>
       ELSE /\ cameraAnimations' = animations
            /\ IF ~TruthyName(activeCameraAnimation)
               THEN /\ activeCameraAnimation' = <<name>>
                    /\ cameraRuntimeAnimation' =
                            applyCameraAnimation(animations, name, cameraBlendMode,
                                                 cameraRuntimeAnimation)
               ELSE UNCHANGED <<activeCameraAnimation, cameraRuntimeAnimation>>
    /\ cameraCall' = [op |-> "addCameraAnimation", name |-> name, returned |-> "none"]
    /\ UNCHANGED cameraBlendMode
    /\ UNCHANGED ccFrame

RemoveCameraAnimation(name) ==
    LET remaining == Remaining(cameraAnimations, name)
        next == IF Len(remaining) > 0 THEN <<remaining[1]>> ELSE NoName IN
    /\ IF activeCameraAnimation = <<name>>
       THEN /\ activeCameraAnimation' = next
            /\ cameraRuntimeAnimation' =
                    IF TruthyName(next)
                    THEN applyCameraAnimation(cameraAnimations, next[1],
                                              cameraBlendMode, cameraRuntimeAnimation)
                    ELSE cameraRuntimeAnimation
       ELSE UNCHANGED <<activeCameraAnimation, cameraRuntimeAnimation>>
    /\ cameraAnimations' = MapDelete(cameraAnimations, name)
    /\ cameraCall' = [op |-> "removeCameraAnimation", name |-> name,
                      returned |-> "none"]
    /\ UNCHANGED cameraBlendMode
    /\ UNCHANGED ccFrame

SwitchToCamera(name) ==
    /\ IF KeyIndex(cameraAnimations, name) = 0
       THEN /\ UNCHANGED <<activeCameraAnimation, cameraRuntimeAnimation>>
            /\ cameraCall' = [op |-> "switchToCamera", name |-> name,
                              returned |-> "false"]
       ELSE /\ activeCameraAnimation' = <<name>>
            /\ cameraRuntimeAnimation' =
                    applyCameraAnimation(cameraAnimations, name, cameraBlendMode,
                                         cameraRuntimeAnimation)
            /\ cameraCall' = [op |-> "switchToCamera", name |-> name,
                              returned |-> "true"]
    /\ UNCHANGED <<cameraAnimations, cameraBlendMode>>
    /\ UNCHANGED ccFrame

\* setCameraWeight(name, weight)
SetCameraWeight(name, weight) ==
    LET k == KeyIndex(cameraAnimations, name) IN
    /\ cameraAnimations' =
            IF k # 0 THEN [cameraAnimations EXCEPT ![k].weight = Clamp(weight)]
            ELSE cameraAnimations
    /\ cameraCall' = [op |-> "setCameraWeight", name |-> name, returned |-> "none"]
    /\ UNCHANGED <<activeCameraAnimation, cameraBlendMode, cameraRuntimeAnimation>>
    /\ UNCHANGED ccFrame

\* setCameraActive(name, isActive)
SetCameraActive(name, isActive) ==
    LET k == KeyIndex(cameraAnimations, name) IN
    /\ cameraAnimations' =
            IF k # 0 THEN [cameraAnimations EXCEPT ![k].isActive = isActive]
            ELSE cameraAnimations
    /\ cameraCall' = [op |-> "setCameraActive", name |-> name, returned |-> "none"]
    /\ UNCHANGED <<activeCameraAnimation, cameraBlendMode, cameraRuntimeAnimation>>
    /\ UNCHANGED ccFrame

\* CameraController.setBlendMode(mode)
SetCameraBlendMode(mode) ==
    /\ cameraBlendMode' = mode
    /\ cameraRuntimeAnimation' =
            IF TruthyName(activeCameraAnimation)
            THEN applyCameraAnimation(cameraAnimations, activeCameraAnimation[1],
                                      mode, cameraRuntimeAnimation)
            ELSE cameraRuntimeAnimation
    /\ cameraCall' = [op |-> "setBlendMode", name |-> mode, returned |-> "none"]
    /\ UNCHANGED <<cameraAnimations, activeCameraAnimation>>
    /\ UNCHANGED ccFrame

(***************************************************************************)
(* VmdAnimationController: the motions it loads for its models and for the *)
(* camera it shares with the camera controller, after their awaits.  The   *)
(* runtime's models are the models the controller has loaded, in the same  *)
(* order: each createMmdModel is followed by a push.  Playback (the flag   *)
(* _isPlaying and the runtime's timeline) is outside the model.            *)
(***************************************************************************)
\* a File: its name before the last dot, and the characters that follow
\* that dot
File(base, ext) == [base |-> base, ext |-> ext]

\* null, where a file is optional
NullFile == [base |-> "", ext |-> <<>>]

\* the capital letters and their small letters
LowerCase ==
    [A |-> "a", B |-> "b", C |-> "c", D |-> "d", E |-> "e", F |-> "f", G |-> "g",
     H |-> "h", I |-> "i", J |-> "j", K |-> "k", L |-> "l", M |-> "m", N |-> "n",
     O |-> "o", P |-> "p", Q |-> "q", R |-> "r", S |-> "s", T |-> "t", U |-> "u",
     V |-> "v", W |-> "w", X |-> "x", Y |-> "y", Z |-> "z"]

\* toLowerCase() of characters of ASCII: every capital letter becomes its
\* small letter, every other character stays
toLowerCase(chars) ==
    [i \in 1..Len(chars) |->
        IF chars[i] \in DOMAIN LowerCase THEN LowerCase[chars[i]] ELSE chars[i]]

\* file.name.toLowerCase().endsWith(".vmd")
IsVmdFile(file) == toLowerCase(file.ext) = <<"v", "m", "d">>

\* _mmdAnimation while it is null
NoVmd == <<>>

\* what loader.loadAsync gives for a file: the animation data of that name,
\* with a camera motion or without one
LoadedAnimation(file, cameraAnimation) ==
    [animationData |-> DataOf[file.base], cameraAnimation |-> cameraAnimation]

\* the runtime animation the controller of models makes of a VMD file's
\* camera motion
VmdHandle == "vmd"

\* the runtime animation made of a composite animation with the spans given
CompositeHandle(spans) == [kind |-> "composite", spans |-> spans]

\* the span of an optional file: none when the file is null or no VMD file
SpanOf(file) ==
    IF file # NullFile /\ IsVmdFile(file) THEN <<DataOf[file.base]>> ELSE <<>>

\* modelIndex < 0 || modelIndex >= this._loadedModels.length
InvalidIndex(modelIndex) == modelIndex < 0 \/ modelIndex >= Len(loadedModels)

vmdFrame == <<vpdVars, rtVars, fxVars, bcVars, abVars>>

\* setMmdCamera(mmdCamera)
SetMmdCamera ==
    /\ mmdCamera' = TRUE
    /\ UNCHANGED <<loadedModels, modelBlenders, loading, nextModel, blenderAsked,
                   mmdAnimation, modelLayers, modelBlendModes, runtimeAnimations>>
    /\ UNCHANGED ccVars
    /\ UNCHANGED vmdFrame

\* The model is given the animation of the file: as a layer of weight 1.0
\* named as the file when it has a blender, as its runtime animation when it
\* has none.
GiveAnimation(model, file, animation) ==
    IF model \in modelBlenders
    THEN /\ modelLayers' =
                [modelLayers EXCEPT ![model] =
                    LayersWith(@, file.base, animation.animationData, WOne)]
         /\ runtimeAnimations' =
                [runtimeAnimations EXCEPT ![model] =
                    AnimationWith(modelLayers[model], @, file.base,
                                  animation.animationData)]
    ELSE /\ runtimeAnimations' =
                [runtimeAnimations EXCEPT ![model] =
                    createRuntimeAnimation(animation.animationData)]
         /\ UNCHANGED modelLayers

\* loadVmdFile(file) after its await; a file that is no VMD file makes it
\* throw before.  The first model of the runtime is given the animation, the
\* camera the file's camera motion when the camera is set and the file has
\* one, and the animation is kept for reset().
LoadVmdFileResolves(file, cameraAnimation) ==
    LET animation == LoadedAnimation(file, cameraAnimation) IN
    /\ IsVmdFile(file)
    /\ IF loadedModels # <<>>
       THEN GiveAnimation(loadedModels[1], file, animation)
       ELSE UNCHANGED <<modelLayers, runtimeAnimations>>
    /\ cameraRuntimeAnimation' =
            IF mmdCamera /\ cameraAnimation THEN VmdHandle ELSE cameraRuntimeAnimation
    /\ mmdAnimation' = <<animation>>
    /\ UNCHANGED <<loadedModels, modelBlenders, loading, nextModel, blenderAsked,
                   mmdCamera, modelBlendModes>>
    /\ UNCHANGED <<cameraAnimations, activeCameraAnimation, cameraBlendMode, cameraCall>>
    /\ UNCHANGED vmdFrame

\* loadVmdForModel(file, modelIndex) after its await; an invalid index and a
\* file that is no VMD file make it throw before
LoadVmdForModelResolves(file, modelIndex) ==
    /\ ~InvalidIndex(modelIndex)
    /\ IsVmdFile(file)
    /\ GiveAnimation(loadedModels[modelIndex + 1], file, LoadedAnimation(file, FALSE))
    /\ UNCHANGED <<loadedModels, modelBlenders, loading, nextModel, blenderAsked,
                   mmdCamera, mmdAnimation, modelBlendModes>>
    /\ UNCHANGED ccVars
    /\ UNCHANGED vmdFrame

\* targetModel.setRuntimeAnimation(compositeAnimationHandle), with the
\* composite of the spans given: it is set on the model past its blender
SetComposite(targetModel, spans) ==
    /\ runtimeAnimations' =
            [runtimeAnimations EXCEPT ![targetModel] = CompositeHandle(spans)]
    /\ UNCHANGED <<loadedModels, modelBlenders, loading, nextModel, blenderAsked,
                   mmdCamera, mmdAnimation, modelLayers, modelBlendModes>>
    /\ UNCHANGED ccVars
    /\ UNCHANGED vmdFrame

\* the span of the motion file
MotionSpan(motionFile) == <<DataOf[motionFile.base]>>

\* loadVmdForModelWithMorphs(motionFile, morphFile, modelIndex) after its
\* awaits; an invalid index and a motion file that is no VMD file make it
\* throw before
LoadVmdForModelWithMorphsResolves(motionFile, morphFile, modelIndex) ==
    /\ ~InvalidIndex(modelIndex)
    /\ IsVmdFile(motionFile)
    /\ SetComposite(loadedModels[modelIndex + 1],
                    MotionSpan(motionFile) \o SpanOf(morphFile))

\* loadVmdForModelWithMorphsAndMouth(motionFile, morphFile, mouthFile,
\* modelIndex) after its awaits
LoadVmdForModelWithMorphsAndMouthResolves(motionFile, morphFile, mouthFile, modelIndex) ==
    /\ ~InvalidIndex(modelIndex)
    /\ IsVmdFile(motionFile)
    /\ SetComposite(loadedModels[modelIndex + 1],
                    MotionSpan(motionFile) \o SpanOf(morphFile) \o SpanOf(mouthFile))

\* loadVmdForModelWithMorphsMouthAndEye(motionFile, morphFile, mouthFile,
\* eyeFile, modelIndex) after its awaits
LoadVmdForModelWithMorphsMouthAndEyeResolves(motionFile, morphFile, mouthFile, eyeFile, modelIndex) ==
    /\ ~InvalidIndex(modelIndex)
    /\ IsVmdFile(motionFile)
    /\ SetComposite(loadedModels[modelIndex + 1],
                    MotionSpan(motionFile) \o SpanOf(morphFile) \o SpanOf(mouthFile)
                        \o SpanOf(eyeFile))

\* reset(): with a first model and an animation kept by loadVmdFile, the
\* model is given a new runtime animation of it, past its blender, and the
\* camera its camera motion again
Reset ==
    /\ IF loadedModels # <<>> /\ mmdAnimation # NoVmd
       THEN /\ runtimeAnimations' =
                    [runtimeAnimations EXCEPT ![loadedModels[1]] =
                        createRuntimeAnimation(mmdAnimation[1].animationData)]
            /\ cameraRuntimeAnimation' =
                    IF mmdCamera /\ mmdAnimation[1].cameraAnimation
                    THEN VmdHandle ELSE cameraRuntimeAnimation
       ELSE UNCHANGED <<runtimeAnimations, cameraRuntimeAnimation>>
    /\ UNCHANGED <<loadedModels, modelBlenders, loading, nextModel, blenderAsked,
                   mmdCamera, mmdAnimation, modelLayers, modelBlendModes>>
    /\ UNCHANGED <<cameraAnimations, activeCameraAnimation, cameraBlendMode, cameraCall>>
    /\ UNCHANGED vmdFrame

\* The blender that getAnimationBlender(modelIndex) hands to its caller is
\* the blender of the model at that index, the one loadVmdFile and
\* loadVmdForModel add their layers to.  The caller calls a method of it
\* when it is not null.
HandedOut(modelIndex) == getAnimationBlender(modelIndex) = "blender"

\* what a call on the blender of a model leaves alone
handedFrame ==
    <<vpdVars, rtVars, fxVars, bcVars, ccVars, loadedModels, modelBlenders, loading,
      nextModel, blenderAsked, mmdCamera, mmdAnimation, animationLayers, blendMode,
      animationDatas, modelAnimation, layerCall, givenDatas>>

\* _applyBlendedAnimation of the blender of a model, on the layers and the
\* mode given
ReapplyOf(model, layers, mode) ==
    LET applied == applyBlendedAnimation(layers, mode, boneDatas,
                                         runtimeAnimations[model]) IN
    /\ BlendsAdditively(layers, mode) => blends < MaxBlends
    /\ boneDatas' = applied.boneDatas
    /\ runtimeAnimations' = [runtimeAnimations EXCEPT ![model] = applied.modelAnimation]
    /\ blends' = IF applied.additive THEN blends + 1 ELSE blends

\* getAnimationBlender(modelIndex).addAnimationLayer(name, animationData, weight)
AddAnimationLayerOf(modelIndex, name, animationData, weight) ==
    /\ HandedOut(modelIndex)
    /\ modelLayers' =
            [modelLayers EXCEPT ![loadedModels[modelIndex + 1]] =
                LayersWith(@, name, animationData, weight)]
    /\ runtimeAnimations' =
            [runtimeAnimations EXCEPT ![loadedModels[modelIndex + 1]] =
                AnimationWith(modelLayers[loadedModels[modelIndex + 1]], @, name,
                              animationData)]
    /\ UNCHANGED <<modelBlendModes, boneDatas, blends>>
    /\ UNCHANGED handedFrame

\* getAnimationBlender(modelIndex).removeAnimationLayer(name)
RemoveAnimationLayerOf(modelIndex, name) ==
    LET model == loadedModels[modelIndex + 1]
        index == FindLayer(modelLayers[model], name)
        layers == SpliceLayer(modelLayers[model], index) IN
    /\ HandedOut(modelIndex)
    /\ IF index # 0
       THEN /\ modelLayers' = [modelLayers EXCEPT ![model] = layers]
            /\ ReapplyOf(model, layers, modelBlendModes[model])
       ELSE UNCHANGED <<modelLayers, runtimeAnimations, boneDatas, blends>>
    /\ UNCHANGED modelBlendModes
    /\ UNCHANGED handedFrame

\* getAnimationBlender(modelIndex).setLayerWeight(name, weight)
SetLayerWeightOf(modelIndex, name, weight) ==
    LET model == loadedModels[modelIndex + 1]
        layer == FindLayer(modelLayers[model], name)
        layers == [modelLayers[model] EXCEPT ![layer].weight = Clamp(weight)] IN
    /\ HandedOut(modelIndex)
    /\ IF layer # 0
       THEN /\ modelLayers' = [modelLayers EXCEPT ![model] = layers]
            /\ ReapplyOf(model, layers, modelBlendModes[model])
       ELSE UNCHANGED <<modelLayers, runtimeAnimations, boneDatas, blends>>
    /\ UNCHANGED modelBlendModes
    /\ UNCHANGED handedFrame

\* getAnimationBlender(modelIndex).setLayerActive(name, isActive)
SetLayerActiveOf(modelIndex, name, isActive) ==
    LET model == loadedModels[modelIndex + 1]
        layer == FindLayer(modelLayers[model], name)
        layers == [modelLayers[model] EXCEPT ![layer].isActive = isActive] IN
    /\ HandedOut(modelIndex)
    /\ IF layer # 0
       THEN /\ modelLayers' = [modelLayers EXCEPT ![model] = layers]
            /\ ReapplyOf(model, layers, modelBlendModes[model])
       ELSE UNCHANGED <<modelLayers, runtimeAnimations, boneDatas, blends>>
    /\ UNCHANGED modelBlendModes
    /\ UNCHANGED handedFrame

\* getAnimationBlender(modelIndex).setBlendMode(mode)
SetBlendModeOf(modelIndex, mode) ==
    /\ HandedOut(modelIndex)
    /\ modelBlendModes' = [modelBlendModes EXCEPT ![loadedModels[modelIndex + 1]] = mode]
    /\ ReapplyOf(loadedModels[modelIndex + 1],
                 modelLayers[loadedModels[modelIndex + 1]], mode)
    /\ UNCHANGED modelLayers
    /\ UNCHANGED handedFrame

\* getAnimationBlender(modelIndex).clearLayers(): the layers go, the
\* runtime animation set on the model stays
ClearLayersOf(modelIndex) ==
    /\ HandedOut(modelIndex)
    /\ modelLayers' = [modelLayers EXCEPT ![loadedModels[modelIndex + 1]] = <<>>]
    /\ UNCHANGED <<modelBlendModes, runtimeAnimations, boneDatas, blends>>
    /\ UNCHANGED handedFrame

\* getActiveCameraAnimation()
getActiveCameraAnimation == activeCameraAnimation

\* no controller of models
VcIdle ==
    /\ loadedModels = <<>>
    /\ modelBlenders = {}
    /\ loading = {}
    /\ nextModel = 0
    /\ blenderAsked = NoBlenderAsked
    /\ mmdCamera = FALSE
    /\ mmdAnimation = NoVmd
    /\ modelLayers = [model \in 1..MaxModels |-> <<>>]
    /\ modelBlendModes = [model \in 1..MaxModels |-> "override"]
    /\ runtimeAnimations = [model \in 1..MaxModels |-> NoAnimation]

\* the controller of models as buildScene leaves it: the camera set, the
\* initial model registered
SceneBuilt ==
    /\ loadedModels = <<1>>
    /\ modelBlenders = {1}
    /\ loading = {}
    /\ nextModel = 1
    /\ blenderAsked = NoBlenderAsked
    /\ mmdCamera = TRUE
    /\ mmdAnimation = NoVmd
    /\ modelLayers = [model \in 1..MaxModels |-> <<>>]
    /\ modelBlendModes = [model \in 1..MaxModels |-> "override"]
    /\ runtimeAnimations = [model \in 1..MaxModels |-> NoAnimation]

\* no camera controller
CcIdle ==
    /\ cameraAnimations = <<>>
    /\ activeCameraAnimation = NoName
    /\ cameraBlendMode = "override"
    /\ cameraRuntimeAnimation = NoHandle
    /\ cameraCall = NoCameraCall

\* none of the three
UiIdle == AbIdle /\ VcIdle /\ CcIdle

(***************************************************************************)
(* Specifications                                                          *)
(***************************************************************************)
\* no document, no retargeter: the retargeter part at rest
RtIdle ==
    /\ maps = <<>>
    /\ configs = <<>>
    /\ retargeters = <<>>
    /\ docs = <<>>
    /\ groups = <<>>
    /\ chans = <<>>
    /\ tracks = <<>>
    /\ inputDoc = 0
    /\ inputSnapshot = <<>>
    /\ returned = <<>>
    /\ returnedBy = <<>>
    /\ returnedAt = <<>>
    /\ mutated = {}
    /\ FxIdle

\* files of calls that share the page with other calls: the example, a binary
\* file of one record whose marker follows a byte that is no character, and a
\* binary file without the marker
SampleFiles ==
    {ExampleFile,
     [fmt |-> "binary", header |-> "reread", model |-> "plain",
      count |-> <<1, 0, 0, 0>>, nrec |-> 1, first |-> 0, length |-> 44 + 48],
     [fmt |-> "binary", header |-> "nomarker", model |-> "plain",
      count |-> <<1, 0, 0, 0>>, nrec |-> 1, first |-> 0, length |-> 44 + 48]}

\* the files the next call is made on: any file for a call on its own, a
\* sample file for a call made beside others
CallFiles ==
    IF vpdLoads = <<>> THEN VpdFiles
    ELSE IF \A k \in DOMAIN vpdLoads : vpdLoads[k].file \in SampleFiles
    THEN SampleFiles ELSE {}

VpdNext ==
    \/ \E f \in CallFiles : LoadFromFile(f)
    \/ \E f \in CallFiles \cap SampleFiles : LoadVpdFile(f)
    \/ \E k \in 1..MaxLoads : ReaderOnLoad(k)
    \/ \E k \in 1..MaxLoads : ReaderOnError(k)
    \/ \E k \in 1..MaxLoads, outcome \in FetchOutcomes : FetchSettles(k, outcome)
    \/ \E k \in 1..MaxLoads, resolved \in BOOLEAN : ArrayBufferSettles(k, resolved)

\* (the caller of the retargeter on its own constructs with the configs in
\* their order)
RtNext ==
    \/ \E i \in 1..Len(RetargeterConfigs) :
            i = Len(retargeters) + 1 /\ Construct(i)
    \/ \E r \in 1..Len(retargeters) : CallRetarget(r)
    \/ \E i \in 1..MaxCalls, g \in 1..2, j \in 1..MaxChannels : MutateBoneName(i, g, j)
    \/ \E i \in 1..MaxCalls, g \in 1..2, j \in 1..MaxChannels : MutateTrack(i, g, j)
    \/ \E i \in 1..MaxCalls, g \in 1..2 : MutateGroup(i, g)
    \/ \E i \in 1..MaxCalls : MutateDoc(i)

\* The pose-file decoder on its own.
InitVpd == VpdInit /\ RtIdle /\ BcIdle /\ UiIdle

SpecVpd == InitVpd /\ [][VpdNext]_vars

\* The retargeter on its own.
InitRetarget == VpdInit /\ RtInit /\ BcIdle /\ UiIdle

SpecRetarget == InitRetarget /\ [][RtNext]_vars

\* the document the retargeters of the factory specification are called on
FactoryDoc ==
    [hasAnimations |-> TRUE,
     animations |-> <<GroupWith(<<"leftUpperArm", "tail01">>)>>]

\* the caller has written to none of its tables
NothingWritten == \A a \in 1..Len(maps) : "written" \notin DOMAIN maps[a]

\* nothing written, called or asked yet
Untouched == NothingWritten /\ returned = <<>> /\ lastCall = NoCall

\* Retargeters made by the factories and the constructor, asked and called
\* by a caller who also writes to the objects it holds.  A behaviour makes
\* its retargeters, then the caller writes to its tables and configs and
\* calls retargetAnimationData once, in any order, then asks one query.
FxNext ==
    \/ \E custom \in MixamoCustoms : Untouched /\ MakeMixamoToMMD(custom)
    \/ \E custom \in MMDCustoms : Untouched /\ MakeMMDToMixamo(custom)
    \/ \E i \in 1..Len(RetargeterConfigs) : Untouched /\ MakeWithConstructor(i)
    \/ \E r \in 1..Len(retargeters), name \in QueryNames :
            lastCall = NoCall /\ GetTargetBoneName(r, name)
    \/ \E r \in 1..Len(retargeters), name \in QueryNames :
            lastCall = NoCall /\ IsBoneMapped(r, name)
    \/ \E r \in 1..Len(retargeters) :
            lastCall = NoCall /\ GetMappedBones(r)
    \/ \E r \in 1..Len(retargeters), a, b, c, d \in Lengths :
            /\ lastCall = NoCall
            /\ returned = <<>>
            /\ NothingWritten
            /\ CalculateScaleFactor(r, LengthLookup(a, b), LengthLookup(c, d))
    \/ \E r \in 1..Len(retargeters) :
            /\ lastCall = NoCall
            /\ returned = <<>>
            /\ CallRetarget(r)
    \/ MutateMapView
    \/ \E a \in 1..Len(maps) : lastCall = NoCall /\ MutateCallerMap(a)
    \/ \E c \in 1..Len(configs) : lastCall = NoCall /\ ReplaceConfigMapping(c)

InitFactory == VpdInit /\ RtInit /\ BcIdle /\ UiIdle /\ inputSnapshot = FactoryDoc

SpecFactory == InitFactory /\ [][FxNext]_vars

\* the bones the caller selects and resets by name
SelectedNames == {Ashi, AshiD, AshiIK}

\* the angles given to rotateBone (in radians) and the places given to
\* moveBone
Turns == {<<Zero, Zero, Zero>>, <<Whole(1), Whole(1), Zero>>}

Moves == {<<Whole(7), Whole(8), Whole(9)>>}

\* The bone controller on its own: the skeleton loads at some time, before
\* or after a pose is applied, and the caller selects, turns, moves and
\* resets bones at any time.
PoseNext ==
    \/ \E names \in Skeletons : SkeletonLoads(names)
    \/ \E vpdBones \in Poses : ApplyVpdPose(vpdBones)
    \/ \E boneName \in SelectedNames : SelectBone(boneName)
    \/ \E turn \in Turns : RotateBone(turn[1], turn[2], turn[3])
    \/ \E move \in Moves : MoveBone(move[1], move[2], move[3])
    \/ \E boneName \in SelectedNames \cup {<<>>} : ResetBone(boneName)
    \/ ResetAllBones

InitPose == VpdInit /\ RtIdle /\ BcIdle /\ UiIdle

SpecPose == InitPose /\ [][PoseNext]_vars

\* The bone controller with its timers: the runtime fires the interval
\* while it runs and each timeout once; the skeleton loads at any time or
\* never, and the caller registers callbacks, selects a bone and applies a
\* pose at any time.
ReadyNext ==
    \/ \E names \in {<<Ashi>>} : SkeletonLoads(names)
    \/ \E callback \in Callbacks : OnSkeletonReady(callback)
    \/ PollTick
    \/ RetryTimeout
    \/ CutoffTimeout
    \/ \E boneName \in {Ashi, AshiD} : SelectBone(boneName)
    \/ \E vpdBones \in {PoseOf(<<Ashi>>)} : ApplyVpdPose(vpdBones)
    \/ \E turn \in Turns : RotateBone(turn[1], turn[2], turn[3])
    \/ \E move \in Moves : MoveBone(move[1], move[2], move[3])
    \/ \E boneName \in {<<>>} : ResetBone(boneName)
    \/ ResetAllBones

SpecReady ==
    /\ InitPose
    /\ [][ReadyNext]_vars
    /\ WF_vars(PollTick)
    /\ WF_vars(RetryTimeout)
    /\ WF_vars(CutoffTimeout)

\* the document the caller passes with a name: the one of that name for a
\* new layer, another one for a name the blender holds
DataGiven(name) ==
    IF FindLayer(animationLayers, name) = 0 THEN DataOf[name]
    ELSE (DataOf[name] % 3) + 1

\* the names the caller passes to setLayerActive
SwitchedNames == {"a", "b"}

\* The animation blender on its own, with a caller that adds, removes and
\* sets layers in any order.
BlendNext ==
    \/ \E name \in LayerNames, weight \in Weights :
            AddAnimationLayer(name, DataGiven(name), weight)
    \/ \E name \in LayerNames : RemoveAnimationLayer(name)
    \/ \E name \in LayerNames, weight \in Weights : SetLayerWeight(name, weight)
    \/ \E name \in SwitchedNames, isActive \in BOOLEAN : SetLayerActive(name, isActive)
    \/ \E mode \in {"additive", "override"} : SetBlendMode(mode)
    \/ ClearLayers

InitBlend ==
    /\ VpdInit /\ RtIdle /\ BcIdle /\ VcIdle /\ CcIdle
    /\ AbInit(ArmAnimationDatas, ArmBoneDatas)

SpecBlend == InitBlend /\ [][BlendNext]_vars

\* The animation blender with a caller whose first document lacks a bone
\* that the other two animate, and who leaves every layer active.
AdditiveNext ==
    \/ \E name \in LayerNames : AddAnimationLayer(name, DataGiven(name), WTwo)
    \/ \E name \in LayerNames : RemoveAnimationLayer(name)
    \/ \E name \in LayerNames, weight \in {WHalf, WTwo} : SetLayerWeight(name, weight)
    \/ \E mode \in {"additive", "override"} : SetBlendMode(mode)
    \/ ClearLayers

InitAdditive ==
    /\ VpdInit /\ RtIdle /\ BcIdle /\ VcIdle /\ CcIdle
    /\ AbInit(LegAnimationDatas, LegBoneDatas)

SpecAdditive == InitAdditive /\ [][AdditiveNext]_vars

\* the files loadVmdFile and the loaders of composites are given: a motion
\* with a capital letter in its extension, and one that is no VMD file
MotionFiles == {File("a", <<"V", "m", "d">>), File("a", <<"p", "m", "x">>)}

\* the files loadVmdForModel is given: another motion, and one that is no
\* VMD file
ModelMotionFiles == {File("b", <<"v", "M", "D">>), File("a", <<"p", "m", "x">>)}

\* the optional files: for the face none, a VMD file or another file
MorphFiles == {NullFile, File("b", <<"V", "M", "D">>), File("b", <<"t", "x", "t">>)}

FaceFiles == {File("b", <<"V", "M", "D">>)}

\* for the mouth and for the eyes
MouthFiles == {File("c", <<"v", "m", "d">>)}

\* the indexes the callers load motions for, and those they load composites
\* for
ModelIndexes == {-1, 0, 1}

FirstIndexes == {-1, 0}

\* the model the panel of layers has selected, the names of the layers it
\* removes, the layer it adds, the layer it sets, and the weight its slider
\* gives
SelectedIndexes == {0}

PanelNames == {"a", "b"}

AddedNames == {"b"}

SetNames == {"a"}

PanelWeights == {WHalf}

\* no load under way, and no blender asked for by the caller itself
PanelOpen == loading = {} /\ blenderAsked = NoBlenderAsked

\* no blender is as the panel alone leaves it: every blender in the mode it
\* was made with, every layer active and of weight 1
PanelIdle ==
    /\ \A model \in 1..MaxModels : modelBlendModes[model] = "override"
    /\ \A model \in 1..MaxModels : \A i \in 1..Len(modelLayers[model]) :
            modelLayers[model][i].isActive /\ modelLayers[model][i].weight = WOne

\* The controller of models on its own: loads resolve or reject in any
\* order, and the caller sets the camera, loads motions and resets at any
\* time.  The panel of layers calls the blender of the model it has selected
\* while no load is under way, and the caller asks for a blender itself
\* before the panel has changed one; asking changes nothing but the record
\* of what was asked.
ModelsNext ==
    \/ RegisterInitialModel
    \/ \E by \in {"loadModel", "loadModelFromFile"} : StartLoad(by)
    \/ \E load \in loading : LoadModelResolves(load)
    \/ \E load \in loading : LoadModelFromFileResolves(load)
    \/ \E load \in loading : LoadRejects(load)
    \/ \E modelIndex \in -1..MaxModels : PanelIdle /\ GetAnimationBlender(modelIndex)
    \/ SetMmdCamera
    \/ \E file \in MotionFiles, cameraAnimation \in BOOLEAN :
            LoadVmdFileResolves(file, cameraAnimation)
    \/ \E file \in ModelMotionFiles, modelIndex \in ModelIndexes :
            LoadVmdForModelResolves(file, modelIndex)
    \/ \E motionFile \in MotionFiles, morphFile \in MorphFiles,
           modelIndex \in FirstIndexes :
            LoadVmdForModelWithMorphsResolves(motionFile, morphFile, modelIndex)
    \/ \E motionFile \in MotionFiles, mouthFile \in MouthFiles,
           modelIndex \in FirstIndexes :
            LoadVmdForModelWithMorphsAndMouthResolves(motionFile, NullFile, mouthFile,
                                                      modelIndex)
    \/ \E motionFile \in MotionFiles, morphFile \in FaceFiles,
           eyeFile \in MouthFiles, modelIndex \in FirstIndexes :
            LoadVmdForModelWithMorphsMouthAndEyeResolves(motionFile, morphFile, NullFile,
                                                         eyeFile, modelIndex)
    \/ Reset
    \/ \E modelIndex \in SelectedIndexes, name \in AddedNames, weight \in PanelWeights :
            PanelOpen /\ AddAnimationLayerOf(modelIndex, name, DataOf[name], weight)
    \/ \E modelIndex \in SelectedIndexes, name \in PanelNames :
            PanelOpen /\ RemoveAnimationLayerOf(modelIndex, name)
    \/ \E modelIndex \in SelectedIndexes, name \in SetNames, weight \in PanelWeights :
            PanelOpen /\ SetLayerWeightOf(modelIndex, name, weight)
    \/ \E modelIndex \in SelectedIndexes, name \in SetNames, isActive \in BOOLEAN :
            PanelOpen /\ SetLayerActiveOf(modelIndex, name, isActive)
    \/ \E modelIndex \in SelectedIndexes, mode \in {"additive", "override"} :
            PanelOpen /\ SetBlendModeOf(modelIndex, mode)
    \/ \E modelIndex \in SelectedIndexes : PanelOpen /\ ClearLayersOf(modelIndex)

\* no model yet, and on the heap the documents the loader gives for the
\* files
InitModels ==
    /\ VpdInit /\ RtIdle /\ BcIdle /\ VcIdle /\ CcIdle
    /\ AbInit(ArmAnimationDatas, ArmBoneDatas)

SpecModels == InitModels /\ [][ModelsNext]_vars

\* The camera controller and the controller of models after buildScene,
\* which share the camera: the caller registers, removes, switches and sets
\* camera animations, loads VMD files and resets.
CameraNext ==
    \/ \E animationHandle \in CameraHandles, name \in CameraNames,
           weight \in CameraWeights :
            AddCameraAnimation(animationHandle, name, weight)
    \/ \E name \in CameraNames : RemoveCameraAnimation(name)
    \/ \E name \in CameraNames : SwitchToCamera(name)
    \/ \E name \in WeightedNames, weight \in NewCameraWeights :
            SetCameraWeight(name, weight)
    \/ \E name \in ToggledNames, isActive \in BOOLEAN : SetCameraActive(name, isActive)
    \/ \E mode \in {"additive", "override"} : SetCameraBlendMode(mode)
    \/ \E cameraAnimation \in BOOLEAN :
            LoadVmdFileResolves(File("a", <<"v", "m", "d">>), cameraAnimation)
    \/ Reset

InitCamera == VpdInit /\ RtIdle /\ BcIdle /\ AbIdle /\ SceneBuilt /\ CcIdle

SpecCamera == InitCamera /\ [][CameraNext]_vars

\* All components.
Init == InitVpd \/ InitRetarget

Next ==
    VpdNext \/ RtNext \/ FxNext \/ PoseNext \/ ReadyNext \/ BlendNext \/ AdditiveNext
    \/ ModelsNext \/ CameraNext

Spec == Init /\ [][Next]_vars

(***************************************************************************)
(* What a file holds, read off its parameters                              *)
(***************************************************************************)
Settled == vpdPhase = "settled"

\* a file written in the binary layout whose bytes send it down the binary
\* path: no CR or LF among its first 30 bytes
BinaryOnBinaryPath(f) == f.fmt = "binary" /\ ~(f.model = "lf25" /\ f.length >= 26)

\* the 20-byte header field, read as Shift-JIS text, holds the marker (all 8
\* bytes of it are there, and its "V" is not the trail byte of a character)
HeaderHoldsMarker(f) ==
    \/ f.header = "marker" /\ f.length >= 8
    \/ f.header = "reread" /\ f.length >= 9

\* the bone count field is there
HoldsCountField(f) == f.length >= 44

\* the bone count N written in the file, when it is at most 65535
CountWritten(f) == f.count[1] + 256 * f.count[2]

CountAbove10000(f) == f.count[3] > 0 \/ f.count[4] > 0 \/ CountWritten(f) > 10000

\* a file written as text with line feeds, read down the text path
TextOnTextPath(f) == f.fmt = "text" /\ f.header # "long" /\ f.eol # "cr"

\* the count the file declares: none when the count line is cut off
DeclaredCount(f) ==
    IF \E k \in 1..Len(FileLines(f)) : FileLines(f)[k].role = "count"
    THEN f.declared ELSE 0

\* the records the file holds: those whose name line is there
RecordsPresent(f) ==
    Cardinality({k \in 1..Len(FileLines(f)) : FileLines(f)[k].role = "name"})

HoldsLine(f, rec, role) ==
    \E k \in 1..Len(FileLines(f)) :
        FileLines(f)[k].rec = rec /\ FileLines(f)[k].role = role

\* q, component by component
SameQuaternion(q, x, y, z, w) == q.x = x /\ q.y = y /\ q.z = z /\ q.w = w

(***************************************************************************)
(* Claims                                                                  *)
(***************************************************************************)
\* the names of the channels of the first group of a deep value
FirstGroupNames(V) ==
    [j \in 1..Len(V.animations[1].boneAnimations) |->
        V.animations[1].boneAnimations[j].boneName]

\* C1 (as claimed): the first group of every returned document holds exactly
\* one channel for every input channel whose boneName is a key of the
\* retargeter's mapping, in input order, named by the mapped target name, and
\* no channel for a boneName that is not a key.
C1_KeptExactlyMappedKeys ==
    \A i \in 1..Len(returned) :
        LET m == BoneMappingOf(returnedBy[i])
            V == inputSnapshot
        IN  (V.hasAnimations /\ Len(V.animations) >= 1 /\ V.animations[1].hasBones)
            => LET keys == SelectSeq(FirstGroupNames(V), LAMBDA n : n \in DOMAIN m)
               IN  FirstGroupNames(returnedAt[i]) = [j \in 1..Len(keys) |-> m[keys[j]]]

\* objects a document reaches
GroupsOf(d) == {docs[d].animations[i] : i \in 1..Len(docs[d].animations)}

ChansOf(d) ==
    UNION {{groups[g].boneAnimations[j] : j \in 1..Len(groups[g].boneAnimations)} :
            g \in GroupsOf(d)}

TracksOf(d) == {chans[a].track : a \in ChansOf(d)}

SharesNothing(d, e) ==
    /\ d # e
    /\ GroupsOf(d) \cap GroupsOf(e) = {}
    /\ ChansOf(d) \cap ChansOf(e) = {}
    /\ TracksOf(d) \cap TracksOf(e) = {}

\* C2: after any calls, by one or several retargeters, and after the caller
\* wrote to a returned document, the input is deep-equal to its snapshot,
\* every returned document the caller did not write to has the value it was
\* returned with, and no returned document shares an object with the input or
\* with another returned document.
C2_InputNeitherMutatedNorAliased ==
    /\ DocValue(Heap, inputDoc) = inputSnapshot
    /\ \A i \in 1..Len(returned) :
        /\ i \notin mutated => DocValue(Heap, returned[i]) = returnedAt[i]
        /\ SharesNothing(returned[i], inputDoc)
        /\ \A j \in 1..Len(returned) : i # j => SharesNothing(returned[i], returned[j])

\* two retargeters have each returned a document with a channel from an input
\* with channels, and the caller has written to one of them
C2_Witness ==
    /\ Len(returned) = 2
    /\ returnedBy[1] # returnedBy[2]
    /\ mutated # {}
    /\ \A i \in 1..2 : ChansOf(returned[i]) # {} \/ i \in mutated
    /\ ChansOf(inputDoc) # {}
    /\ \E i \in 1..2 :
        returnedAt[i].animations[1].boneAnimations # inputSnapshot.animations[1].boneAnimations

\* C3: binary path, header with the marker, count field present, N <= 10000:
\* the call returns min(N, floor((length - 44) / 48)) records, the first ones
\* of the file, and raises nothing.
C3_BinaryRecordCount ==
    (Settled /\ BinaryOnBinaryPath(vpdFile) /\ HeaderHoldsMarker(vpdFile)
        /\ HoldsCountField(vpdFile) /\ ~CountAbove10000(vpdFile))
    => /\ vpdResult.status = "returned"
       /\ vpdResult.path = "binary"
       /\ Len(vpdResult.bones) = Min(CountWritten(vpdFile), (vpdFile.length - 44) \div 48)
       /\ \A k \in 1..Len(vpdResult.bones) :
            SubSeq(vpdResult.bones[k].name, 1, 2) = <<66, 48 + (k - 1)>>

\* a buffer that ends in the middle of its second record gave one record
C3_Witness ==
    /\ Settled /\ BinaryOnBinaryPath(vpdFile) /\ HeaderHoldsMarker(vpdFile)
    /\ CountWritten(vpdFile) = 2 /\ ~CountAbove10000(vpdFile)
    /\ vpdFile.length = 44 + 48 + 47
    /\ vpdResult.status = "returned"
    /\ Len(vpdResult.bones) = 1

\* C4: binary path and a header field that does not decode to a string with
\* the marker: the call fails and returns nothing, whatever count and records
\* follow.
C4_MissingMarkerFails ==
    (Settled /\ BinaryOnBinaryPath(vpdFile) /\ ~HeaderHoldsMarker(vpdFile))
    => /\ vpdResult.status = "threw"
       /\ vpdResult.error = "Invalid VPD file: missing Vocaloid header"

\* the header's marker bytes follow a lead byte that swallows the "V"; a small
\* count and two whole records follow; the call failed
C4_Witness ==
    /\ Settled /\ vpdFile.fmt = "binary" /\ vpdFile.header = "swallowed"
    /\ vpdFile.nrec = 2 /\ vpdFile.length = 44 + 96 /\ CountWritten(vpdFile) = 2
    /\ ~CountAbove10000(vpdFile)
    /\ vpdResult.status = "threw"

\* a CR or LF among the first min(length, 100) bytes
NewlineInFirst100(data) == \E i \in 1..Min(Len(data), 100) : data[i] \in {10, 13}

\* C5 (as claimed): the buffer is parsed by the text path exactly when a CR or
\* LF is among its first 100 bytes.
C5_TextIffNewlineInFirst100 ==
    Settled => (vpdResult.path = "text" <=> NewlineInFirst100(vpdData))

\* the rotation stored in the k-th record (1-based) of a binary file
StoredBinaryRotation(data, k) ==
    LET o == 44 + 48 * (k - 1) + 32 IN
    Quaternion(readFloat(data, o), readFloat(data, o + 4), readFloat(data, o + 8),
               readFloat(data, o + 12))

\* C6 (as claimed): every returned record has w >= 0; a stored w < 0 gives the
\* four components negated, a stored w >= 0 gives them unchanged.
C6_RotationWNeverBelowZero ==
    (Settled /\ vpdResult.status = "returned")
    => /\ \A k \in 1..Len(vpdResult.bones) : AtLeastZero(vpdResult.bones[k].rotation.w)
       /\ BinaryOnBinaryPath(vpdFile) =>
            \A k \in 1..Len(vpdResult.bones) :
                LET q == StoredBinaryRotation(vpdData, k) IN
                /\ LessThanZero(q.w) =>
                    SameQuaternion(vpdResult.bones[k].rotation,
                                   Negate(q.x), Negate(q.y), Negate(q.z), Negate(q.w))
                /\ AtLeastZero(q.w) => vpdResult.bones[k].rotation = q

\* what the file's parameters say ParseVpd does with it
RaisesOnlyFor(f, noMarker, noCount, tooMany) ==
    IF f.fmt = "binary"
    THEN BinaryOnBinaryPath(f)
         /\ \/ noMarker /\ ~HeaderHoldsMarker(f)
            \/ noCount /\ HeaderHoldsMarker(f) /\ ~HoldsCountField(f)
            \/ tooMany /\ HeaderHoldsMarker(f) /\ HoldsCountField(f) /\ CountAbove10000(f)
    ELSE tooMany /\ f.fmt = "text" /\ f.header = "long"

\* C7 (as claimed): the call raises only for a binary header without the
\* marker and for a binary bone count above 10000; a buffer that ends before
\* the bone count yields a document.
C7_RaisesOnlyForMarkerAndCount ==
    Settled => (vpdResult.status = "threw" <=> RaisesOnlyFor(vpdFile, TRUE, FALSE, TRUE))

\* C7 (amended): the call raises on the binary path only, and exactly when the
\* header lacks the marker, or the buffer ends before the 4-byte bone count
\* at bytes 40..43 can be read, or the count is above 10000; a buffer cut
\* anywhere after the count yields a document.
C7_RaisesForMarkerCountFieldAndCount ==
    Settled =>
        /\ vpdResult.status = "threw" <=> RaisesOnlyFor(vpdFile, TRUE, TRUE, TRUE)
        /\ vpdResult.status \in {"threw", "returned"}
        /\ vpdResult.status = "threw" =>
            /\ vpdResult.path = "binary"
            /\ (vpdResult.error = "VPD file truncated: cannot read bone count"
                    <=> RaisesOnlyFor(vpdFile, FALSE, TRUE, FALSE))
            /\ (vpdResult.error = "Invalid VPD file: missing Vocaloid header"
                    <=> RaisesOnlyFor(vpdFile, TRUE, FALSE, FALSE))

\* a 43-byte buffer with the marker raised, and it is the count field that
\* could not be read
C7_Witness ==
    /\ Settled /\ vpdFile.fmt = "binary" /\ vpdFile.header = "marker"
    /\ vpdFile.length = 43
    /\ vpdResult.status = "threw"
    /\ vpdResult.error = "VPD file truncated: cannot read bone count"

\* C8: every buffer read down the text path gives a document and no error; a
\* text file gives at most as many records as it declares, and exactly
\* min(declared, records present) when its lines end in LF: an input that ends
\* before the declared count is reached gives the records read so far.  The
\* example (count 2, one record) gives one record named "Hip".
C8_TextStopsAtEndOfInput ==
    Settled =>
        /\ vpdResult.path = "text" => vpdResult.status = "returned"
        /\ (vpdFile.fmt = "text" /\ vpdFile.header # "long") =>
            /\ vpdResult.path = "text"
            /\ Len(vpdResult.bones) <= DeclaredCount(vpdFile)
        /\ TextOnTextPath(vpdFile) =>
            Len(vpdResult.bones) = Min(DeclaredCount(vpdFile), RecordsPresent(vpdFile))
        /\ vpdFile = ExampleFile =>
            /\ vpdResult.path = "text"
            /\ Len(vpdResult.bones) = 1
            /\ vpdResult.bones[1].name = <<72, 105, 112>>

\* a file that declares more records than it holds (its last record is cut
\* short) gave the records it holds
C8_Witness ==
    /\ Settled /\ TextOnTextPath(vpdFile)
    /\ vpdFile.cut > 0
    /\ RecordsPresent(vpdFile) = 2
    /\ DeclaredCount(vpdFile) = 3
    /\ Len(vpdResult.bones) = 2

\* C9: in a text file, a record whose position line does not match has
\* position (0,0,0) and one whose rotation line does not match has rotation
\* (0,0,0,1); the record is emitted all the same, under its own name, and the
\* records after it are read as they are written.
C9_MalformedLineGivesDefault ==
    (Settled /\ TextOnTextPath(vpdFile)) =>
        /\ Len(vpdResult.bones) = Min(DeclaredCount(vpdFile), RecordsPresent(vpdFile))
        /\ \A k \in 1..Len(vpdResult.bones) :
            LET r == TextRecord(TemplateOf(vpdFile, k - 1), k - 1)
                b == vpdResult.bones[k]
            IN  /\ b.name = r.name
                /\ (HoldsLine(vpdFile, k - 1, "pos") /\ r.posOk) => b.position = r.pos
                /\ ~r.posOk => b.position = Vector3(Zero, Zero, Zero)
                /\ ~r.rotOk => b.rotation = Quaternion(Zero, Zero, Zero, One)

\* a file whose first record has a rotation line of three numbers and whose
\* second record has a position line without commas gave both records
C9_Witness ==
    /\ Settled /\ TextOnTextPath(vpdFile)
    /\ vpdFile.nrec = 2 /\ vpdFile.first = 3 /\ vpdFile.cut = 0
    /\ vpdFile.first = 3 => TemplateOf(vpdFile, 1) = 4
    /\ Len(vpdResult.bones) = 2
    /\ vpdResult.bones[1].rotation = Quaternion(Zero, Zero, Zero, One)

\* C10: binary path, marker and count field present: a count above 10000
\* fails the call, whatever records the buffer holds, and a count of at
\* most 10000 never does.
C10_CountCeiling ==
    (Settled /\ BinaryOnBinaryPath(vpdFile) /\ HeaderHoldsMarker(vpdFile)
        /\ HoldsCountField(vpdFile))
    => /\ CountAbove10000(vpdFile) =>
            /\ vpdResult.status = "threw"
            /\ vpdResult.error = "Invalid bone count"
       /\ ~CountAbove10000(vpdFile) => vpdResult.status = "returned"

\* a count of 10001 in a buffer that holds two whole records failed the call
C10_Witness ==
    /\ Settled /\ BinaryOnBinaryPath(vpdFile) /\ HeaderHoldsMarker(vpdFile)
    /\ vpdFile.count = <<17, 39, 0, 0>>
    /\ vpdFile.nrec = 2 /\ vpdFile.length = 44 + 96
    /\ vpdResult.status = "threw"

\* the keyframe arrays of a sequence of channel values
TracksOfChannels(cs) == [j \in 1..Len(cs) |-> cs[j].track]

\* the input channels the retargeter with mapping m retains
RetainedChannels(V, m) ==
    SelectSeq(V.animations[1].boneAnimations, LAMBDA c : KeepsChannel(m, c.boneName))

\* C14 (as claimed): every channel retained in a returned document has the
\* keyframe data of its input channel, only the boneName differs; the morph
\* channels and every other non-bone part of the document are the input's.
C14_OnlyBoneNameDiffers ==
    \A i \in 1..Len(returned) :
        LET V == inputSnapshot
            W == returnedAt[i]
        IN  /\ W.hasAnimations = V.hasAnimations
            /\ Len(W.animations) = Len(V.animations)
            /\ \A g \in 1..Len(V.animations) :
                /\ W.animations[g].hasBones = V.animations[g].hasBones
                /\ W.animations[g].morphAnimations = V.animations[g].morphAnimations
            /\ (Len(V.animations) >= 1 /\ V.animations[1].hasBones) =>
                TracksOfChannels(W.animations[1].boneAnimations) =
                    TracksOfChannels(RetainedChannels(V, BoneMappingOf(returnedBy[i])))

\* C20 (as claimed): the bone channels of the second and later groups of a
\* returned document are exactly the input's, neither renamed nor dropped.
C20_LaterGroupsReturnedAsInput ==
    \A i \in 1..Len(returned) :
        \A g \in 2..Len(inputSnapshot.animations) :
            returnedAt[i].animations[g].boneAnimations =
                inputSnapshot.animations[g].boneAnimations

\* the rotation a record gives when q is stored in it
Canonical(q) ==
    IF LessThanZero(q.w)
    THEN Quaternion(Negate(q.x), Negate(q.y), Negate(q.z), Negate(q.w))
    ELSE q

\* C17: the records come back in file order: on the binary path the k-th
\* returned record has the name and the position of the k-th record of the
\* buffer, on the text path the name, the position and the rotation written
\* in the k-th record of the file; none is reordered, duplicated or skipped.
C17_RecordsInFileOrder ==
    (Settled /\ vpdResult.status = "returned") =>
        /\ BinaryOnBinaryPath(vpdFile) =>
            /\ Len(vpdResult.bones) <= vpdFile.nrec
            /\ \A k \in 1..Len(vpdResult.bones) :
                /\ vpdResult.bones[k].name = PadTo(<<66, 48 + (k - 1)>>, 20)
                /\ vpdResult.bones[k].position =
                        Vector3(readFloat(<<k - 1, 0, 128, 63>>, 0),
                                readFloat(F32Zero, 0), readFloat(F32One, 0))
        /\ (vpdFile.fmt = "text" /\ vpdFile.header # "long") =>
            /\ Len(vpdResult.bones) <= RecordsPresent(vpdFile)
            /\ \A k \in 1..Len(vpdResult.bones) :
                LET r == TextRecord(TemplateOf(vpdFile, k - 1), k - 1)
                    b == vpdResult.bones[k]
                IN  /\ b.name = r.name
                    /\ (HoldsLine(vpdFile, k - 1, "pos") /\ r.posOk) => b.position = r.pos
                    /\ (HoldsLine(vpdFile, k - 1, "rot") /\ r.rotOk) =>
                            b.rotation = Canonical(r.rot)

\* a text file whose first record has no closing brace and whose records are
\* separated by blank lines gave its two records, and a binary buffer gave
\* its two
C17_Witness ==
    /\ Settled /\ vpdResult.status = "returned"
    /\ Len(vpdResult.bones) = 2
    /\ \/ /\ vpdFile.fmt = "text" /\ vpdFile.header = "marker"
          /\ vpdFile.first = 5 /\ vpdFile.blank /\ vpdFile.cut = 0
          /\ vpdResult.bones[2].name = <<78, 49>>
       \/ /\ BinaryOnBinaryPath(vpdFile)
          /\ SubSeq(vpdResult.bones[2].name, 1, 2) = <<66, 49>>

\* the retargeter that answered the last query was made by a factory called
\* without a custom table
AskedOfDefault(made) ==
    /\ lastCall.op # "none"
    /\ origins[lastCall.by].made = made
    /\ ~origins[lastCall.by].given

\* roles both shipped skeletons have
SharedRoles == DOMAIN MIXAMO_SKELETON \cap DOMAIN MMD_SKELETON

\* C11 (as claimed): getMappedBones() of CreateMixamoToMMD(model) holds, for
\* every role of both shipped skeletons, the pair from the Mixamo skeleton's
\* name of the role to the MMD skeleton's name of the role, and no other pair.
C11_DefaultPairsAreSharedRoles ==
    (lastCall.op = "getMappedBones" /\ ~lastCall.written
        /\ AskedOfDefault("CreateMixamoToMMD"))
    => /\ \A role \in SharedRoles :
            /\ MIXAMO_SKELETON[role] \in DOMAIN lastCall.result
            /\ lastCall.result[MIXAMO_SKELETON[role]] = MMD_SKELETON[role]
       /\ \A k \in DOMAIN lastCall.result :
            \E role \in SharedRoles : k = MIXAMO_SKELETON[role]

\* the config of the retargeter that computed the last scale factor
ScaleConfig == configs[retargeters[lastCall.by].config]

\* lengths by role: what the two lookups give for the upper arm and the
\* forearm of the config's source and target skeleton
SourceUpper == lastCall.source[SkeletonBones(ScaleConfig.sourceSkeleton).leftUpperArm]

SourceFore == lastCall.source[SkeletonBones(ScaleConfig.sourceSkeleton).leftForeArm]

TargetUpper == lastCall.target[SkeletonBones(ScaleConfig.targetSkeleton).leftUpperArm]

TargetFore == lastCall.target[SkeletonBones(ScaleConfig.targetSkeleton).leftForeArm]

\* the number 1.0
ExactlyOne == [nan |-> FALSE, inf |-> FALSE, neg |-> FALSE, num |-> 1, den |-> 1]

\* C12 (as claimed): with a source skeleton and summed target lengths above
\* zero, the scale factor is sum(target) / sum(source).
C12_ScaleIsTargetOverSource ==
    (lastCall.op = "calculateScaleFactor" /\ ScaleConfig.sourceSkeleton # "none"
        /\ TargetUpper + TargetFore > 0)
    => lastCall.result = Divide(TargetUpper + TargetFore, SourceUpper + SourceFore)

\* C12 (amended): with a source skeleton and summed target lengths above
\* zero, the scale factor is sum(source) / sum(target); the sums run over the
\* source limb names that are not blank and over as many target limbs,
\* counted from the upper arm.
C12_ScaleIsSourceOverTarget ==
    (lastCall.op = "calculateScaleFactor" /\ ScaleConfig.sourceSkeleton # "none") =>
        IF ScaleConfig.sourceSkeleton = "MMD_NO_UPPER_ARM"
        THEN TargetUpper > 0 => lastCall.result = Divide(SourceFore, TargetUpper)
        ELSE TargetUpper + TargetFore > 0 =>
                lastCall.result = Divide(SourceUpper + SourceFore, TargetUpper + TargetFore)

\* a retargeter whose source skeleton has a blank upper-arm name and a
\* forearm of length 2 was given target lengths 1 and 2, and answered 2: the
\* source forearm over the target upper arm
C12_Witness ==
    /\ lastCall.op = "calculateScaleFactor"
    /\ ScaleConfig.sourceSkeleton = "MMD_NO_UPPER_ARM"
    /\ SkeletonBones(ScaleConfig.sourceSkeleton).leftUpperArm = ""
    /\ SourceFore = 2 /\ TargetUpper = 1 /\ TargetFore = 2
    /\ lastCall.result = Divide(2, 1)

\* a retargeter with both skeletons named in full was given source lengths 2
\* and 1 and target lengths 1 and 0, and answered 3
ScaleOfFullSkeletons ==
    /\ lastCall.op = "calculateScaleFactor"
    /\ ScaleConfig.sourceSkeleton = "MIXAMO"
    /\ SourceUpper = 2 /\ SourceFore = 1 /\ TargetUpper = 1 /\ TargetFore = 0
    /\ lastCall.result.num = 3 /\ lastCall.result.den = 1

\* the default table of the factory that made retargeter r
DefaultOf(r) ==
    IF origins[r].made = "CreateMixamoToMMD" THEN MixamoToMMDDefault ELSE MMDToMixamoDefault

\* C13: the mapping of a retargeter made by a factory sends every key of the
\* custom table to its custom value, every other key of the default table to
\* its default value, and has no other key.
C13_OverrideMerge ==
    \A r \in 1..Len(retargeters) :
        origins[r].made # "constructor" =>
            LET m == BoneMappingOf(r)
                custom == origins[r].custom
            IN  /\ DOMAIN m = DOMAIN DefaultOf(r) \cup DOMAIN custom
                /\ \A k \in DOMAIN custom : m[k] = custom[k]
                /\ \A k \in DOMAIN DefaultOf(r) \ DOMAIN custom : m[k] = DefaultOf(r)[k]

\* both factories were called with a table that overrides the left arm and
\* adds a key; the mappings hold the custom arm, the added key and the
\* default hips
C13_Witness ==
    /\ Len(retargeters) = 2
    /\ origins[1].made = "CreateMixamoToMMD" /\ origins[1].given
    /\ origins[2].made = "CreateMMDToMixamo" /\ origins[2].given
    /\ BoneMappingOf(1)["leftArm"] = "custom_arm"
    /\ BoneMappingOf(1)["tail01"] = "jp_shippo"
    /\ BoneMappingOf(1)["hips"] = "jp_center"
    /\ BoneMappingOf(2)["jp_hidariude"] = "custom_arm"
    /\ BoneMappingOf(2)["jp_center"] = "hips"

\* C15: the scale factor is exactly 1.0 when the retargeter has no source
\* skeleton, whatever the lookups return, and when it has one and the target
\* lookup returns 0 for the upper arm and the forearm.
C15_ScaleDegeneratesToOne ==
    lastCall.op = "calculateScaleFactor" =>
        /\ ScaleConfig.sourceSkeleton = "none" => lastCall.result = ExactlyOne
        /\ (ScaleConfig.sourceSkeleton # "none" /\ TargetUpper = 0 /\ TargetFore = 0) =>
                lastCall.result = ExactlyOne

\* a retargeter with a source skeleton was given source lengths 2 and 1 and
\* a target lookup that returns 0, and answered 1; or one without a source
\* skeleton was given lengths above zero, and answered 1
C15_Witness ==
    /\ lastCall.op = "calculateScaleFactor"
    /\ lastCall.result = ExactlyOne
    /\ \/ /\ ScaleConfig.sourceSkeleton = "MMD"
          /\ SourceUpper = 2 /\ SourceFore = 1 /\ TargetUpper = 0 /\ TargetFore = 0
       \/ /\ ScaleConfig.sourceSkeleton = "none"
          /\ lastCall.source = LengthLookup(2, 1) /\ lastCall.target = LengthLookup(1, 2)

\* C16 (as claimed): no step changes the bone mapping of a retargeter: no
\* query, no call of retargetAnimationData, and no write of the caller to
\* the Map of getMappedBones, to the override table it passed to a factory
\* or to the config it passed to the constructor.
C16_MappingFixedAtConstruction ==
    [][\A r \in 1..Len(retargeters) : BoneMappingOf(r)' = BoneMappingOf(r)]_vars

\* a pose was applied to a mesh that had its skeleton
PoseApplied == poseCall.op = "applyVpdPose" /\ poseCall.before.loaded

\* the greatest of a set of record numbers
Latest(S) == CHOOSE i \in S : \A j \in S : j <= i

\* the records of the last pose whose lookup found bone b
MatchedTo(b) ==
    {i \in 1..Len(poseCall.vpdBones) :
        FindSkeletonBone(poseCall.before.bones, poseCall.vpdBones[i].name) = b}

\* the name holds the letters I, K in a row, both Latin or both full-width
NamesIK(name) ==
    \E i \in 1..(Len(name) - 1) :
        \/ name[i] = 73 /\ name[i + 1] = 75
        \/ name[i] = 65321 /\ name[i + 1] = 65323

\* C18: every matched record sets its bone's rotation, and sets its bone's
\* position only when the record's name contains "IK" or the full-width
\* "IK": after the call a matched bone has the rotation of the last record
\* matched to it, and the position of the last such record with an IK name,
\* or the position it had before the call when no such record has one.
C18_RotationAlwaysPositionOnlyForIK ==
    PoseApplied =>
        \A b \in 1..Len(skeleton.bones) :
            LET matched == MatchedTo(b)
                ik == {i \in matched : NamesIK(poseCall.vpdBones[i].name)}
            IN  matched # {} =>
                    /\ skeleton.bones[b].rotation = poseCall.vpdBones[Latest(matched)].rotation
                    /\ skeleton.bones[b].position =
                            IF ik # {}
                            THEN poseCall.vpdBones[Latest(ik)].position
                            ELSE poseCall.before.bones[b].position

\* a pose with a record for the full-width IK bone and one for the bone
\* whose name mixes a Latin I with a full-width K: the first bone moved and
\* turned, the second only turned
C18_Witness ==
    /\ PoseApplied
    /\ poseCall.vpdBones = PoseOf(<<AshiFullWidthIK, AshiMixedIK>>)
    /\ skeleton.bones = [BonesOf(<<AshiIK, AshiFullWidthIK, AshiMixedIK>>) EXCEPT
            ![2] = [name |-> AshiFullWidthIK, position |-> Vector3(Whole(1), Zero, Zero),
                    rotation |-> Quaternion(Zero, Whole(1), Zero, One)],
            ![3] = [name |-> AshiMixedIK, position |-> Vector3(Zero, Whole(3), Zero),
                    rotation |-> Quaternion(Zero, Whole(2), Zero, One)]]

\* the bones named n in the skeleton the last pose was applied to
Named(n) == {b \in 1..Len(poseCall.before.bones) : poseCall.before.bones[b].name = n}

\* the bone a record named n is to be bound to: the bone named n; if there
\* is none the bone named n + "D"; if there is none either and n ends with
\* "D", the bone named n without that "D"
BoundBones(n) ==
    IF Named(n) # {} THEN Named(n)
    ELSE IF Named(n \o <<68>>) # {} THEN Named(n \o <<68>>)
    ELSE IF Len(n) > 0 /\ n[Len(n)] = 68 THEN Named(SubSeq(n, 1, Len(n) - 1))
    ELSE {}

\* C19: a record is bound to the bone of its own name when there is one,
\* else to the bone named name + "D", else to the bone named as the record
\* without its trailing "D"; a record without such a bone changes no bone
\* and the call returns; a bone no record is bound to keeps its transform,
\* a bone some record is bound to has the rotation of the last such record.
C19_ExactNameThenSuffixVariants ==
    PoseApplied =>
        /\ poseCall.outcome = "returned"
        /\ Len(skeleton.bones) = Len(poseCall.before.bones)
        /\ \A b \in 1..Len(skeleton.bones) :
            LET bound == {i \in 1..Len(poseCall.vpdBones) :
                            b \in BoundBones(poseCall.vpdBones[i].name)}
            IN  IF bound = {}
                THEN skeleton.bones[b] = poseCall.before.bones[b]
                ELSE /\ skeleton.bones[b].name = poseCall.before.bones[b].name
                     /\ skeleton.bones[b].rotation =
                            poseCall.vpdBones[Latest(bound)].rotation

\* a skeleton with the leg bone and its "D" twin was given a record for
\* the leg and a record "D" that has no bone: the leg turned, the twin kept
\* its transform
C19_Witness ==
    /\ PoseApplied
    /\ poseCall.before.bones = BonesOf(<<Ashi, AshiD>>)
    /\ poseCall.vpdBones = PoseOf(<<Ashi, LatinD>>)
    /\ skeleton.bones[1].rotation = Quaternion(Zero, Whole(1), Zero, One)
    /\ skeleton.bones[2] = poseCall.before.bones[2]

\* C26 (as claimed): for the retargeter and the name of an isBoneMapped
\* call, the answer is true exactly when getTargetBoneName of that name is
\* not null, and exactly when retargetAnimationData keeps a first-group
\* channel of that name.
C26_ThreeViewsAgree ==
    lastCall.op = "isBoneMapped" =>
        LET mapping == BoneMappingOf(lastCall.by)
        IN  /\ lastCall.result <=> getTargetBoneName(mapping, lastCall.name) # "null"
            /\ lastCall.result <=> KeepsChannel(mapping, lastCall.name)

\* the retargeters made by a factory called without a custom table
MadeByDefault(made) ==
    {r \in 1..Len(retargeters) : origins[r].made = made /\ ~origins[r].given}

\* the name a channel named k has after retargetAnimationData of retargeter
\* r and then of retargeter q ("null" when one of them drops it)
ThereAndBack(r, q, k) ==
    getTargetBoneName(BoneMappingOf(q), getTargetBoneName(BoneMappingOf(r), k))

\* C27 (as claimed): the default tables are mutual inverses: each sends the
\* other's value of a key back to the key, for every key of either table.
C27_DefaultsAreMutualInverses ==
    \A r \in MadeByDefault("CreateMixamoToMMD"), q \in MadeByDefault("CreateMMDToMixamo") :
        /\ \A k \in DOMAIN BoneMappingOf(r) : ThereAndBack(r, q, k) = k
        /\ \A k \in DOMAIN BoneMappingOf(q) : ThereAndBack(q, r, k) = k

\* Where the two default tables stop being inverses: the Latin-to-MMD table
\* sends the MMD-to-Latin value of every MMD key back to the key, and the
\* MMD-to-Latin table sends the Latin-to-MMD value of every Latin key back
\* to the key but for spine2, whose value is also the value of chest and
\* comes back as chest.
InverseButForSpine2 ==
    \A r \in MadeByDefault("CreateMixamoToMMD"), q \in MadeByDefault("CreateMMDToMixamo") :
        /\ \A k \in DOMAIN BoneMappingOf(q) : ThereAndBack(q, r, k) = k
        /\ \A k \in DOMAIN BoneMappingOf(r) \ {"spine2"} : ThereAndBack(r, q, k) = k
        /\ ThereAndBack(r, q, "spine2") = "chest"

\* the file that differs from f by a first line holding the marker
WithMarkerLine(f) == [f EXCEPT !.header = "marker"]

\* C28: a text file without a header line goes down the text path and the
\* call returns; it gives the records that the same file with a marker line
\* in front gives: as many as it declares and holds, its first line being
\* read as the filename or the count line.
C28_TextNeedsNoMarker ==
    (Settled /\ vpdFile.fmt = "text" /\ vpdFile.header = "none") =>
        /\ vpdResult.path = "text"
        /\ vpdResult.status = "returned"
        /\ vpdResult = ParseVpd(FileBytes(WithMarkerLine(vpdFile)))
        /\ vpdFile.eol # "cr" =>
            Len(vpdResult.bones) = Min(DeclaredCount(vpdFile), RecordsPresent(vpdFile))

\* a file that starts with its count line, declares two records and holds
\* them gave two records, the first under its name
C28_Witness ==
    /\ Settled /\ vpdFile.fmt = "text" /\ vpdFile.header = "none"
    /\ ~vpdFile.filename /\ vpdFile.eol = "lf" /\ vpdFile.cut = 0
    /\ vpdFile.declared = 2 /\ vpdFile.nrec = 2
    /\ vpdResult.status = "returned"
    /\ Len(vpdResult.bones) = 2
    /\ vpdResult.bones[1].name = <<78, 48>>

\* C21 (as claimed): no callback given to onSkeletonReady is invoked more
\* than once, and every callback given is invoked once the skeleton is
\* there: at once when the bones are initialised, else eventually.
C21_EveryCallbackInvokedOnce ==
    /\ [](\A c \in Callbacks : invoked[c] <= 1)
    /\ \A c \in Callbacks : (c \in registered /\ skeleton.loaded) ~> (invoked[c] = 1)

\* the names registered with the camera controller
RegisteredCameras == {cameraAnimations[i].name : i \in 1..Len(cameraAnimations)}

\* C30: whenever a camera animation is registered, getActiveCameraAnimation()
\* is the name of a registered one, and it is null when none is registered;
\* removing the active animation while another is registered makes a
\* registered one other than the removed one active.
C30_ActiveCameraIsRegistered ==
    /\ [](IF cameraAnimations # <<>>
          THEN /\ getActiveCameraAnimation # NoName
               /\ getActiveCameraAnimation[1] \in RegisteredCameras
          ELSE getActiveCameraAnimation = NoName)
    /\ [][\A name \in CameraNames :
            (/\ activeCameraAnimation = <<name>>
             /\ RegisteredCameras \ {name} # {}
             /\ RemoveCameraAnimation(name))
            => /\ activeCameraAnimation' # NoName
               /\ activeCameraAnimation'[1] # name
               /\ activeCameraAnimation'[1] \in RegisteredCameras \ {name}]_vars

\* an animation was removed, and of the two registered the one with the
\* empty name, registered first, is active while the camera plays a handle
\* that neither of them holds
C30_Witness ==
    /\ cameraCall.op = "removeCameraAnimation"
    /\ cameraCall.name = "dolly"
    /\ Len(cameraAnimations) = 2
    /\ cameraAnimations[1].name = ""
    /\ activeCameraAnimation = <<"">>
    /\ cameraRuntimeAnimation = "h1"
    /\ \A i \in 1..2 : cameraAnimations[i].handle = "h2"

\* C25 (as claimed): getAnimationBlender(i) is not null for any index i of
\* the list of loaded models.
C25_EveryLoadedModelHasBlender ==
    \A modelIndex \in 0..(Len(loadedModels) - 1) :
        getAnimationBlender(modelIndex) # "null"

\* the layers that are active, by position
ActivePositions == {i \in 1..Len(animationLayers) : animationLayers[i].isActive}

\* the earliest added of the active layers
EarliestActive == CHOOSE i \in ActivePositions : \A j \in ActivePositions : i <= j

\* the active layers whose weight is a number
WeighedPositions == {i \in ActivePositions : ~animationLayers[i].weight.nan}

\* the active layer of the highest weight, the earliest added on a tie
\* (of the weights that are numbers; the earliest added when none is)
Heaviest ==
    IF WeighedPositions = {} THEN EarliestActive
    ELSE CHOOSE i \in WeighedPositions :
            /\ \A j \in WeighedPositions :
                    ~Greater(animationLayers[j].weight, animationLayers[i].weight)
            /\ \A j \in WeighedPositions :
                    j < i => Greater(animationLayers[i].weight, animationLayers[j].weight)

\* an active layer has the weight NaN, which the clamp lets through: the
\* total of the active weights and every share of it are then NaN
SomeActiveWeightNaN == \E i \in ActivePositions : animationLayers[i].weight.nan

\* the model plays the animation made of the data of the layer at position i
Plays(i) ==
    /\ modelAnimation.kind = "data"
    /\ modelAnimation.animationData = animationLayers[i].animationData

\* override mode, two layers or more, one of them active
OverrideOfSeveral ==
    /\ blendMode = "override"
    /\ Len(animationLayers) >= 2
    /\ ActivePositions # {}

\* C22 (as claimed): in override mode, after each of the five layer
\* operations that leaves two layers or more with one active, the model
\* plays the animation of the active layer of the highest weight, the
\* earliest added on a tie.
C22_ModelPlaysHeaviest ==
    (/\ layerCall.op \in {"addAnimationLayer", "removeAnimationLayer",
                          "setLayerWeight", "setLayerActive", "setBlendMode"}
     /\ OverrideOfSeveral)
    => Plays(Heaviest)

\* C22 (amended): in override mode with two layers or more, one of them
\* active, the model plays the animation of the active layer of the
\* highest weight (the earliest added on a tie) after removeAnimationLayer,
\* setLayerWeight and setLayerActive of a layer that is held, and after
\* setBlendMode, when no active layer has the weight NaN; when one has, it
\* plays the animation of the earliest added active layer instead; after
\* addAnimationLayer of a new name it plays the
\* animation of the layer just added, whatever its weight; and
\* addAnimationLayer of a name that is held, as removeAnimationLayer,
\* setLayerWeight and setLayerActive of a name that is not held, leaves
\* what it plays as it is.
C22_HeaviestButAfterAdd ==
    /\ []((/\ layerCall.op \in {"removeAnimationLayer", "setLayerWeight",
                                 "setLayerActive", "setBlendMode"}
           /\ layerCall.found
           /\ OverrideOfSeveral)
          => IF SomeActiveWeightNaN THEN Plays(EarliestActive) ELSE Plays(Heaviest))
    /\ []((/\ layerCall.op = "addAnimationLayer"
           /\ ~layerCall.found
           /\ OverrideOfSeveral)
          => Plays(Len(animationLayers)))
    /\ [][\A name \in LayerNames, weight \in Weights :
            (/\ FindLayer(animationLayers, name) # 0
             /\ AddAnimationLayer(name, DataGiven(name), weight))
            => modelAnimation' = modelAnimation]_vars
    /\ [][\A name \in LayerNames, weight \in Weights, isActive \in BOOLEAN :
            (/\ FindLayer(animationLayers, name) = 0
             /\ \/ RemoveAnimationLayer(name)
                \/ SetLayerWeight(name, weight)
                \/ SetLayerActive(name, isActive))
            => modelAnimation' = modelAnimation]_vars

\* the weight of the second of two active layers was set to that of the
\* first, and the model plays the first
C22_Witness ==
    /\ layerCall = [op |-> "setLayerWeight", found |-> TRUE]
    /\ OverrideOfSeveral
    /\ Len(animationLayers) = 2
    /\ ActivePositions = {1, 2}
    /\ animationLayers[1].weight = WHalf
    /\ animationLayers[2].weight = WHalf
    /\ Plays(1)
    /\ ~Plays(2)

\* the weight of the third of three active layers was set to NaN: the
\* second is the heaviest of those whose weight is a number, and the model
\* plays the first
NaNKeepsEarliest ==
    /\ layerCall = [op |-> "setLayerWeight", found |-> TRUE]
    /\ OverrideOfSeveral
    /\ Len(animationLayers) = 3
    /\ ActivePositions = {1, 2, 3}
    /\ animationLayers[1].weight = WHalf
    /\ animationLayers[2].weight = WOne
    /\ animationLayers[3].weight = WNaN
    /\ Heaviest = 2
    /\ Plays(1)
    /\ ~Plays(2)

\* C23 (as claimed): the animation on the model derives only from layers
\* that the blender holds and that are active.
C23_PlaysOnlyHeldActiveLayers ==
    /\ modelAnimation.kind = "data" => \E i \in ActivePositions : Plays(i)
    /\ modelAnimation.kind = "blended" =>
            \A k \in 1..Len(modelAnimation.layers) :
                \E i \in ActivePositions :
                    animationLayers[i].name = modelAnimation.layers[k]

\* C24 (as claimed): the data of every layer is deep-equal to the value it
\* was added with.
C24_LayerDataAsGiven ==
    \A i \in 1..Len(animationLayers) :
        DeepValue(animationLayers[i].animationData) = givenDatas[i]

\* C29: no two layers share a name; addAnimationLayer with a name that is
\* held sets the weight of that layer to the weight given, brought into
\* [0, 1], adds no layer, leaves the data of every layer and every other
\* field as they are, and leaves the animation on the model as it is.
C29_NamesUniqueAndReAddSetsWeight ==
    /\ [](\A i, j \in 1..Len(animationLayers) :
            animationLayers[i].name = animationLayers[j].name => i = j)
    /\ [][\A name \in LayerNames, weight \in Weights :
            (/\ FindLayer(animationLayers, name) # 0
             /\ AddAnimationLayer(name, DataGiven(name), weight))
            => /\ Len(animationLayers') = Len(animationLayers)
               /\ \A i \in 1..Len(animationLayers) :
                    /\ animationLayers'[i].name = animationLayers[i].name
                    /\ animationLayers'[i].animationData = animationLayers[i].animationData
                    /\ animationLayers'[i].isActive = animationLayers[i].isActive
                    /\ animationLayers'[i].runtimeHandle = animationLayers[i].runtimeHandle
                    /\ animationLayers[i].name # name =>
                            animationLayers'[i].weight = animationLayers[i].weight
                    /\ animationLayers[i].name = name =>
                            /\ ~Greater(WZero, animationLayers'[i].weight)
                            /\ ~Greater(animationLayers'[i].weight, WOne)
                            /\ animationLayers'[i].weight =
                                    IF Greater(WZero, weight) THEN WZero
                                    ELSE IF Greater(weight, WOne) THEN WOne
                                    ELSE weight
               /\ boneDatas' = boneDatas
               /\ modelAnimation' = modelAnimation]_vars

\* layer "a" was added again, with a weight below 0 and with another
\* document: it keeps its document and has weight 0, and the model still
\* plays layer "b", added after it
C29_Witness ==
    /\ layerCall = [op |-> "addAnimationLayer", found |-> TRUE]
    /\ Len(animationLayers) = 2
    /\ animationLayers[1].name = "a"
    /\ animationLayers[1].animationData = DataOf["a"]
    /\ animationLayers[1].weight = WZero
    /\ animationLayers[2].name = "b"
    /\ Plays(2)

(***************************************************************************)
(* The blenders of the controller of models, as the panel leaves them      *)
(***************************************************************************)
\* a model without a blender has no layers, and a layer is held once
LayersOnlyOfBlenders ==
    \A model \in 1..MaxModels :
        /\ model \notin modelBlenders => modelLayers[model] = <<>>
        /\ \A i, j \in 1..Len(modelLayers[model]) :
                modelLayers[model][i].name = modelLayers[model][j].name => i = j

\* after loadVmdFile of a.Vmd, setLayerWeight("a", 0.5) and
\* setLayerActive("a", false) on the blender of the first model
LayerSetByPanel ==
    /\ loadedModels # <<>>
    /\ Len(modelLayers[loadedModels[1]]) = 1
    /\ modelLayers[loadedModels[1]][1].name = "a"
    /\ modelLayers[loadedModels[1]][1].weight = WHalf
    /\ ~modelLayers[loadedModels[1]][1].isActive
    /\ runtimeAnimations[loadedModels[1]] = createRuntimeAnimation(DataOf["a"])

\* after clearLayers() the layers are gone and the model plays on
LayersCleared ==
    /\ loadedModels # <<>>
    /\ loadedModels[1] \in modelBlenders
    /\ modelLayers[loadedModels[1]] = <<>>
    /\ runtimeAnimations[loadedModels[1]] = createRuntimeAnimation(DataOf["a"])
    /\ mmdAnimation # NoVmd

\* the first model plays the blend of its two layers
BlendedByPanel ==
    /\ loadedModels # <<>>
    /\ modelBlendModes[loadedModels[1]] = "additive"
    /\ runtimeAnimations[loadedModels[1]] = [kind |-> "blended", layers |-> <<"a", "b">>]

\* the first model holds a at 0.5 before b at 1 and plays b, the heavier
HeavierByPanel ==
    /\ loadedModels # <<>>
    /\ Len(modelLayers[loadedModels[1]]) = 2
    /\ modelLayers[loadedModels[1]][1].name = "a"
    /\ modelLayers[loadedModels[1]][1].weight = WHalf
    /\ modelLayers[loadedModels[1]][1].isActive
    /\ modelLayers[loadedModels[1]][2].weight = WOne
    /\ modelBlendModes[loadedModels[1]] = "override"
    /\ runtimeAnimations[loadedModels[1]] = createRuntimeAnimation(DataOf["b"])
    /\ loading # {}

====
